---- MODULE Spec2Model ----
(***************************************************************************)
(* Model of the ingestion / normalization / classification / insights      *)
(* pipeline of src/src (process_transactions and what it calls).           *)
(*                                                                         *)
(* Representation                                                          *)
(*   - a text is a sequence of one-character strings, so that regular      *)
(*     expressions, str.lower, str.title and slicing are computed, not     *)
(*     assumed;                                                            *)
(*   - an amount is an integer number of mills (1/1000 of the currency     *)
(*     unit), so that round(x, 2) is a real conversion;                    *)
(*   - a confidence is an integer number of hundredths;                    *)
(*   - a calendar date is an integer day number; a date string is a record *)
(*     saying which parsing strategy accepts it and which day it denotes;  *)
(*   - the modules of src/src are taken to be importable the way           *)
(*     models.py expects (its validators' "from .config import" resolves). *)
(***************************************************************************)
EXTENDS Integers, Sequences, FiniteSets, TLC

(***************************************************************************)
(* Characters and elementary string operations (Python str / re).          *)
(***************************************************************************)
LowerSeq == <<"a", "b", "c", "d", "e", "f", "g", "h", "i", "j", "k", "l", "m", "n", "o", "p", "q", "r", "s", "t", "u", "v", "w", "x", "y", "z">>
UpperSeq == <<"A", "B", "C", "D", "E", "F", "G", "H", "I", "J", "K", "L", "M", "N", "O", "P", "Q", "R", "S", "T", "U", "V", "W", "X", "Y", "Z">>
Lower == {LowerSeq[i] : i \in 1..26}
Upper == {UpperSeq[i] : i \in 1..26}
Letters == Lower \cup Upper
Digits == {"0", "1", "2", "3", "4", "5", "6", "7", "8", "9"}
Whitespace == {" "}
\* \w of the re module: letters, digits and the underscore
WordChars == Letters \cup Digits \cup {"_"}

Range(f) == {f[i] : i \in DOMAIN f}

Min(a, b) == IF a <= b THEN a ELSE b

Max(a, b) == IF a >= b THEN a ELSE b

Abs(x) == IF x < 0 THEN -x ELSE x

\* s[:n]
Prefix(s, n) == SubSeq(s, 1, Min(n, Len(s)))

\* s[i:] with i a 1-based position
Suffix(s, i) == SubSeq(s, i, Len(s))

\* position of c in the alphabet seq (c occurs in it)
IndexOf(c, alphabet) == CHOOSE i \in DOMAIN alphabet : alphabet[i] = c

\* str.lower() on one character
LowerChar(c) == IF c \in Upper THEN LowerSeq[IndexOf(c, UpperSeq)] ELSE c

\* str.upper() on one character
UpperChar(c) == IF c \in Lower THEN UpperSeq[IndexOf(c, LowerSeq)] ELSE c

\* str.lower()
ToLower(s) == [i \in DOMAIN s |-> LowerChar(s[i])]

\* str.title(): a letter that follows a letter is lower-cased, any other
\* letter is upper-cased
Title(s) ==
  [i \in DOMAIN s |->
     IF i > 1 /\ s[i - 1] \in Letters THEN LowerChar(s[i]) ELSE UpperChar(s[i])]

\* sub occurs in s at position i
OccursAt(sub, s, i) ==
  /\ i >= 1
  /\ i + Len(sub) - 1 <= Len(s)
  /\ \A k \in 1..Len(sub) : s[i + k - 1] = sub[k]

\* Python's "sub in s"
Contains(s, sub) == \E i \in 1..(Len(s) - Len(sub) + 1) : OccursAt(sub, s, i)

\* any(keyword in s for keyword in keywords)
ContainsAny(s, keywords) == \E k \in DOMAIN keywords : Contains(s, keywords[k])

\* str.strip()
LStrip(s) ==
  IF \A i \in DOMAIN s : s[i] \in Whitespace THEN <<>>
  ELSE SubSeq(s, CHOOSE i \in DOMAIN s :
                   s[i] \notin Whitespace /\ \A j \in 1..(i - 1) : s[j] \in Whitespace,
              Len(s))

RStrip(s) ==
  IF \A i \in DOMAIN s : s[i] \in Whitespace THEN <<>>
  ELSE SubSeq(s, 1, CHOOSE i \in DOMAIN s :
                      s[i] \notin Whitespace /\ \A j \in (i + 1)..Len(s) : s[j] \in Whitespace)

Strip(s) == LStrip(RStrip(s))

\* re.sub(r'\s+', ' ', s): every run of whitespace leaves one space, at the
\* place of its first character
CollapseSpaces(s) ==
  LET kept == SelectSeq([i \in DOMAIN s |-> i],
                        LAMBDA i : ~(s[i] \in Whitespace /\ i > 1 /\ s[i - 1] \in Whitespace))
  IN  [k \in DOMAIN kept |-> IF s[kept[k]] \in Whitespace THEN " " ELSE s[kept[k]]]

\* s.rsplit(' ', 1)[0]
RsplitHead(s) ==
  IF \E i \in DOMAIN s : s[i] = " "
  THEN SubSeq(s, 1, (CHOOSE i \in DOMAIN s : s[i] = " " /\ \A j \in (i + 1)..Len(s) : s[j] # " ") - 1)
  ELSE s

(***************************************************************************)
(* config.py                                                               *)
(***************************************************************************)
MAX_TRANSACTIONS_PER_BATCH == 200
MAX_DESCRIPTION_LENGTH == 100

VALID_CATEGORIES ==
  {"alimentacao", "transporte", "moradia", "lazer", "saude", "compras",
   "contas", "transferencia", "renda", "educacao", "outros"}

\* HEURISTIC_CONFIDENCE_RANGE, in hundredths
HEURISTIC_CONFIDENCE_MIN == 30
HEURISTIC_CONFIDENCE_MAX == 60

\* SENSITIVE_PATTERNS: a pattern is a sequence of items, each a character
\* class that is consumed once, or at most once when opt is set (\s?)
D == [set |-> Digits, opt |-> FALSE]
Lit(c) == [set |-> {c}, opt |-> FALSE]
OptSpace == [set |-> Whitespace, opt |-> TRUE]

SENSITIVE_PATTERNS ==
  << <<D, D, D, Lit("."), D, D, D, Lit("."), D, D, D, Lit("-"), D, D>>,
     <<D, D, D, D, D, Lit("-"), D>>,
     <<D, D, D, D, OptSpace, D, D, D, D, OptSpace, D, D, D, D, OptSpace, D, D, D, D>> >>

MASK == <<"*", "*", "*">>

(***************************************************************************)
(* validator.py: DataValidator                                             *)
(***************************************************************************)
\* normalize_description, first step: drop what is outside [\w\s\-.,]
StripSpecial(s) == SelectSeq(s, LAMBDA c : c \in WordChars \cup Whitespace \cup {"-", ".", ","})

\* re.sub(r'\s+\d{5,}$', '', s): the leftmost run of whitespace that is
\* followed by five or more digits up to the end of the text is cut with them
IsTrailingCode(s, i) ==
  /\ s[i] \in Whitespace
  /\ \E j \in i..Len(s) :
       /\ \A k \in i..j : s[k] \in Whitespace
       /\ Len(s) - j >= 5
       /\ \A k \in (j + 1)..Len(s) : s[k] \in Digits

StripTrailingCode(s) ==
  IF \E i \in DOMAIN s : IsTrailingCode(s, i)
  THEN SubSeq(s, 1, (CHOOSE i \in DOMAIN s :
                       IsTrailingCode(s, i) /\ \A j \in 1..(i - 1) : ~IsTrailingCode(s, j)) - 1)
  ELSE s

\* normalized[:MAX_DESCRIPTION_LENGTH].rsplit(' ', 1)[0] + '...'
Truncate(s) ==
  IF Len(s) > MAX_DESCRIPTION_LENGTH
  THEN RsplitHead(Prefix(s, MAX_DESCRIPTION_LENGTH)) \o <<".", ".", ".">>
  ELSE s

normalize_description(description) ==
  LET normalized == Truncate(Title(StripTrailingCode(Strip(CollapseSpaces(StripSpecial(description))))))
  IN  IF normalized # <<>> THEN normalized ELSE Prefix(description, 50)

\* the pattern items k.. without the optional items of skipped, consumed one
\* character each from position i of s on
Consumes(pat, k, skipped, s, i) ==
  LET items == SelectSeq([j \in 1..(Len(pat) - k + 1) |-> j + k - 1], LAMBDA j : j \notin skipped)
  IN  \A j \in DOMAIN items : i + j - 1 <= Len(s) /\ s[i + j - 1] \in pat[items[j]].set

\* length of the match of pattern items k.. at position i of s, or -1: the
\* matcher consumes at an optional item when the rest then matches, and
\* gives the item up otherwise
MatchFrom(pat, k, s, i) ==
  LET optional == {j \in k..Len(pat) : pat[j].opt}
      matching == {skipped \in SUBSET optional : Consumes(pat, k, skipped, s, i)}
      Before(a, b) == \E j \in b \ a : \A m \in k..(j - 1) : (m \in a) = (m \in b)
      first == CHOOSE a \in matching : \A b \in matching \ {a} : Before(a, b)
  IN  IF matching = {} THEN -1 ELSE Len(pat) - k + 1 - Cardinality(first)

\* re.search(pattern, s)
ReSearch(pat, s) == \E i \in DOMAIN s : MatchFrom(pat, 1, s, i) >= 0

\* re.sub(pattern, '***', s) from position i on: the text up to the leftmost
\* match, the mask, and the substitution after the match
RECURSIVE ReSubFrom(_, _, _)
ReSubFrom(pat, s, i) ==
  LET starts == {p \in i..Len(s) : MatchFrom(pat, 1, s, p) > 0}
      p == CHOOSE q \in starts : \A r \in starts : q <= r
  IN  IF starts = {} THEN SubSeq(s, i, Len(s))
      ELSE SubSeq(s, i, p - 1) \o MASK \o ReSubFrom(pat, s, p + MatchFrom(pat, 1, s, p))

\* the loop of mask_sensitive_data over patterns p..
RECURSIVE MaskFrom(_, _, _)
MaskFrom(p, masked, has_sensitive) ==
  IF p > Len(SENSITIVE_PATTERNS) THEN [masked |-> masked, has_sensitive |-> has_sensitive]
  ELSE IF ReSearch(SENSITIVE_PATTERNS[p], masked)
       THEN MaskFrom(p + 1, ReSubFrom(SENSITIVE_PATTERNS[p], masked, 1), TRUE)
       ELSE MaskFrom(p + 1, masked, has_sensitive)

mask_sensitive_data(text) == MaskFrom(1, text, FALSE)

income_keywords ==
  <<<<"s", "a", "l", "a", "r", "i", "o">>, <<"d", "e", "p", "o", "s", "i", "t", "o">>, <<"c", "r", "e", "d", "i", "t", "o">>, <<"r", "e", "c", "e", "b", "i", "m", "e", "n", "t", "o">>,
    <<"r", "e", "n", "d", "i", "m", "e", "n", "t", "o">>, <<"d", "i", "v", "i", "d", "e", "n", "d", "o">>, <<"b", "o", "n", "u", "s">>, <<"r", "e", "s", "t", "i", "t", "u", "i", "c", "a", "o">>>>

transfer_keywords == <<<<"p", "i", "x">>, <<"t", "e", "d">>, <<"d", "o", "c">>, <<"t", "r", "a", "n", "s", "f">>>>

\* a normalization that also negates the positive amounts of transfers
normalize_amount_no_exemption(amount, description) ==
  LET is_income == ContainsAny(ToLower(description), income_keywords)
  IN  IF is_income /\ amount < 0 THEN Abs(amount)
      ELSE IF ~is_income /\ amount > 0 THEN -amount
      ELSE amount

\* a normalization that leaves every positive amount as it is
normalize_amount_keep_positive(amount, description) ==
  LET is_income == ContainsAny(ToLower(description), income_keywords)
  IN  IF is_income /\ amount < 0 THEN Abs(amount) ELSE amount

normalize_amount(amount, description) ==
  LET desc_lower == ToLower(description)
      is_income == ContainsAny(desc_lower, income_keywords)
      is_transfer == ContainsAny(desc_lower, transfer_keywords)
  IN  IF is_income /\ amount < 0 THEN Abs(amount)
      ELSE IF ~is_income /\ amount > 0 /\ ~is_transfer THEN -amount
      ELSE amount


\* HEURISTIC_KEYWORDS and SUBCATEGORIES, in the order the dictionaries are written
HEURISTIC_KEYWORDS ==
  <<
    [cat |-> "alimentacao", kws |-> <<<<"p", "a", "d", "a", "r", "i", "a">>, <<"s", "u", "p", "e", "r", "m", "e", "r", "c", "a", "d", "o">>, <<"m", "e", "r", "c", "a", "d", "o">>, <<"r", "e", "s", "t", "a", "u", "r", "a", "n", "t", "e">>, <<"l", "a", "n", "c", "h", "o", "n", "e", "t", "e">>, <<"p", "i", "z", "z", "a", "r", "i", "a">>, <<"h", "a", "m", "b", "u", "r", "g", "u", "e", "r", "i", "a">>, <<"i", "f", "o", "o", "d">>, <<"r", "a", "p", "p", "i">>, <<"u", "b", "e", "r", " ", "e", "a", "t", "s">>, <<"b", "a", "r">>, <<"c", "a", "f", "e", "t", "e", "r", "i", "a">>, <<"a", "c", "a", "i">>, <<"s", "o", "r", "v", "e", "t", "e", "r", "i", "a">>, <<"p", "a", "o">>, <<"f", "e", "i", "r", "a">>, <<"h", "o", "r", "t", "i", "f", "r", "u", "t", "i">>>>],
    [cat |-> "transporte", kws |-> <<<<"u", "b", "e", "r">>, <<"9", "9">>, <<"t", "a", "x", "i">>, <<"g", "a", "s">>, <<"g", "a", "s", "o", "l", "i", "n", "a">>, <<"e", "t", "a", "n", "o", "l">>, <<"c", "o", "m", "b", "u", "s", "t", "i", "v", "e", "l">>, <<"p", "o", "s", "t", "o">>, <<"s", "h", "e", "l", "l">>, <<"i", "p", "i", "r", "a", "n", "g", "a">>, <<"o", "n", "i", "b", "u", "s">>, <<"m", "e", "t", "r", "o">>, <<"e", "s", "t", "a", "c", "i", "o", "n", "a", "m", "e", "n", "t", "o">>, <<"p", "e", "d", "a", "g", "i", "o">>, <<"m", "e", "c", "a", "n", "i", "c", "a">>, <<"o", "f", "i", "c", "i", "n", "a">>>>],
    [cat |-> "moradia", kws |-> <<<<"a", "l", "u", "g", "u", "e", "l">>, <<"c", "o", "n", "d", "o", "m", "i", "n", "i", "o">>, <<"i", "p", "t", "u">>, <<"i", "m", "o", "v", "e", "l">>, <<"c", "a", "s", "a">>, <<"a", "p", "t">>, <<"a", "p", "a", "r", "t", "a", "m", "e", "n", "t", "o">>>>],
    [cat |-> "lazer", kws |-> <<<<"c", "i", "n", "e", "m", "a">>, <<"s", "p", "o", "t", "i", "f", "y">>, <<"n", "e", "t", "f", "l", "i", "x">>, <<"a", "m", "a", "z", "o", "n", " ", "p", "r", "i", "m", "e">>, <<"d", "i", "s", "n", "e", "y">>, <<"h", "b", "o">>, <<"i", "n", "g", "r", "e", "s", "s", "o">>, <<"v", "i", "a", "g", "e", "m">>, <<"h", "o", "t", "e", "l">>, <<"p", "o", "u", "s", "a", "d", "a">>, <<"a", "i", "r", "b", "n", "b">>, <<"t", "u", "r", "i", "s", "m", "o">>, <<"p", "a", "r", "q", "u", "e">>>>],
    [cat |-> "saude", kws |-> <<<<"f", "a", "r", "m", "a", "c", "i", "a">>, <<"d", "r", "o", "g", "a", "r", "i", "a">>, <<"d", "r", "o", "g", "a">>, <<"c", "o", "n", "s", "u", "l", "t", "a">>, <<"m", "e", "d", "i", "c">>, <<"h", "o", "s", "p", "i", "t", "a", "l">>, <<"c", "l", "i", "n", "i", "c", "a">>, <<"p", "l", "a", "n", "o", " ", "s", "a", "u", "d", "e">>, <<"u", "n", "i", "m", "e", "d">>, <<"a", "m", "i", "l">>, <<"b", "r", "a", "d", "e", "s", "c", "o", " ", "s", "a", "u", "d", "e">>, <<"l", "a", "b", "o", "r", "a", "t", "o", "r", "i", "o">>, <<"e", "x", "a", "m", "e">>, <<"d", "e", "n", "t", "i", "s", "t", "a">>, <<"o", "d", "o", "n", "t", "o">>>>],
    [cat |-> "compras", kws |-> <<<<"m", "a", "g", "a", "z", "i", "n", "e">>, <<"l", "o", "j", "a">>, <<"m", "e", "r", "c", "a", "d", "o", " ", "l", "i", "v", "r", "e">>, <<"a", "m", "a", "z", "o", "n">>, <<"s", "h", "o", "p", "e", "e">>, <<"a", "l", "i", "e", "x", "p", "r", "e", "s", "s">>, <<"c", "&", "a">>, <<"r", "e", "n", "n", "e", "r">>, <<"z", "a", "r", "a">>, <<"a", "m", "e", "r", "i", "c", "a", "n", "a", "s">>, <<"s", "u", "b", "m", "a", "r", "i", "n", "o">>, <<"c", "a", "s", "a", "s", " ", "b", "a", "h", "i", "a">>, <<"e", "x", "t", "r", "a">>, <<"e", "l", "e", "t", "r", "o">>>>],
    [cat |-> "contas", kws |-> <<<<"l", "u", "z">>, <<"e", "n", "e", "r", "g", "i", "a">>, <<"c", "e", "m", "i", "g">>, <<"c", "p", "f", "l">>, <<"e", "n", "e", "l">>, <<"a", "g", "u", "a">>, <<"s", "a", "b", "e", "s", "p">>, <<"c", "e", "d", "a", "e">>, <<"i", "n", "t", "e", "r", "n", "e", "t">>, <<"v", "i", "v", "o">>, <<"c", "l", "a", "r", "o">>, <<"t", "i", "m">>, <<"o", "i">>, <<"t", "e", "l", "e", "f", "o", "n", "e">>, <<"c", "e", "l", "u", "l", "a", "r">>, <<"g", "a", "s">>, <<"t", "v", " ", "c", "a", "b", "o">>, <<"n", "e", "t">>, <<"s", "k", "y">>>>],
    [cat |-> "transferencia", kws |-> <<<<"p", "i", "x">>, <<"t", "e", "d">>, <<"d", "o", "c">>, <<"t", "r", "a", "n", "s", "f">>, <<"p", "a", "g", "a", "m", "e", "n", "t", "o">>, <<"e", "n", "v", "i", "o">>, <<"t", "r", "a", "n", "s", "f", "e", "r">>>>],
    [cat |-> "renda", kws |-> <<<<"s", "a", "l", "a", "r", "i", "o">>, <<"p", "a", "g", "a", "m", "e", "n", "t", "o">>, <<"d", "e", "p", "o", "s", "i", "t", "o">>, <<"c", "r", "e", "d", "i", "t", "o">>, <<"r", "e", "c", "e", "b", "i", "m", "e", "n", "t", "o">>, <<"f", "r", "e", "e", "l", "a", "n", "c", "e">>, <<"r", "e", "n", "d", "i", "m", "e", "n", "t", "o">>, <<"d", "i", "v", "i", "d", "e", "n", "d", "o">>, <<"b", "o", "n", "u", "s">>, <<"r", "e", "s", "t", "i", "t", "u", "i", "c", "a", "o">>, <<"i", "r">>>>],
    [cat |-> "educacao", kws |-> <<<<"e", "s", "c", "o", "l", "a">>, <<"f", "a", "c", "u", "l", "d", "a", "d", "e">>, <<"u", "n", "i", "v", "e", "r", "s", "i", "d", "a", "d", "e">>, <<"c", "u", "r", "s", "o">>, <<"l", "i", "v", "r", "a", "r", "i", "a">>, <<"l", "i", "v", "r", "o">>, <<"e", "s", "t", "a", "c", "i", "o">>, <<"a", "n", "h", "a", "n", "g", "u", "e", "r", "a">>, <<"u", "n", "i", "p">>, <<"u", "d", "e", "m", "y">>, <<"c", "o", "u", "r", "s", "e", "r", "a">>, <<"a", "l", "u", "r", "a">>, <<"m", "a", "t", "e", "r", "i", "a", "l", " ", "e", "s", "c", "o", "l", "a", "r">>>>]
  >>

SUBCATEGORIES ==
  <<
    [cat |-> "alimentacao", subs |-> <<<<"r", "e", "s", "t", "a", "u", "r", "a", "n", "t", "e">>, <<"s", "u", "p", "e", "r", "m", "e", "r", "c", "a", "d", "o">>, <<"p", "a", "d", "a", "r", "i", "a">>, <<"l", "a", "n", "c", "h", "o", "n", "e", "t", "e">>, <<"d", "e", "l", "i", "v", "e", "r", "y">>, <<"b", "a", "r">>>>],
    [cat |-> "transporte", subs |-> <<<<"c", "o", "m", "b", "u", "s", "t", "i", "v", "e", "l">>, <<"u", "b", "e", "r">>, <<"t", "a", "x", "i">>, <<"o", "n", "i", "b", "u", "s">>, <<"m", "e", "t", "r", "o">>, <<"p", "e", "d", "a", "g", "i", "o">>, <<"e", "s", "t", "a", "c", "i", "o", "n", "a", "m", "e", "n", "t", "o">>>>],
    [cat |-> "moradia", subs |-> <<<<"a", "l", "u", "g", "u", "e", "l">>, <<"c", "o", "n", "d", "o", "m", "i", "n", "i", "o">>, <<"i", "p", "t", "u">>, <<"m", "a", "n", "u", "t", "e", "n", "c", "a", "o">>>>],
    [cat |-> "lazer", subs |-> <<<<"c", "i", "n", "e", "m", "a">>, <<"s", "t", "r", "e", "a", "m", "i", "n", "g">>, <<"v", "i", "a", "g", "e", "m">>, <<"e", "v", "e", "n", "t", "o">>, <<"r", "e", "s", "t", "a", "u", "r", "a", "n", "t", "e", "_", "l", "a", "z", "e", "r">>>>],
    [cat |-> "saude", subs |-> <<<<"f", "a", "r", "m", "a", "c", "i", "a">>, <<"c", "o", "n", "s", "u", "l", "t", "a">>, <<"p", "l", "a", "n", "o", "_", "s", "a", "u", "d", "e">>, <<"e", "x", "a", "m", "e">>, <<"d", "e", "n", "t", "i", "s", "t", "a">>>>],
    [cat |-> "compras", subs |-> <<<<"r", "o", "u", "p", "a", "s">>, <<"e", "l", "e", "t", "r", "o", "n", "i", "c", "o", "s">>, <<"c", "a", "s", "a">>, <<"p", "r", "e", "s", "e", "n", "t", "e", "s">>, <<"d", "i", "v", "e", "r", "s", "o", "s">>>>],
    [cat |-> "contas", subs |-> <<<<"l", "u", "z">>, <<"a", "g", "u", "a">>, <<"i", "n", "t", "e", "r", "n", "e", "t">>, <<"t", "e", "l", "e", "f", "o", "n", "e">>, <<"g", "a", "s">>, <<"t", "v">>>>],
    [cat |-> "transferencia", subs |-> <<<<"p", "i", "x">>, <<"t", "e", "d">>, <<"d", "o", "c">>>>],
    [cat |-> "renda", subs |-> <<<<"s", "a", "l", "a", "r", "i", "o">>, <<"f", "r", "e", "e", "l", "a", "n", "c", "e">>, <<"i", "n", "v", "e", "s", "t", "i", "m", "e", "n", "t", "o">>, <<"b", "o", "n", "u", "s">>, <<"r", "e", "s", "t", "i", "t", "u", "i", "c", "a", "o">>>>],
    [cat |-> "educacao", subs |-> <<<<"c", "u", "r", "s", "o">>, <<"l", "i", "v", "r", "o">>, <<"m", "e", "n", "s", "a", "l", "i", "d", "a", "d", "e">>, <<"m", "a", "t", "e", "r", "i", "a", "l">>>>],
    [cat |-> "outros", subs |-> <<>>]
  >>

(***************************************************************************)
(* heuristic_fallback.py: HeuristicClassifier                              *)
(***************************************************************************)
\* Python's None
None == <<"None">>

Flatten(ss) ==
  LET RECURSIVE Go(_, _)
      Go(lo, hi) == IF lo > hi THEN <<>>
                    ELSE IF lo = hi THEN ss[lo]
                    ELSE Go(lo, (lo + hi) \div 2) \o Go((lo + hi) \div 2 + 1, hi)
  IN  Go(1, Len(ss))

\* the matches list: (cat, keyword) for every keyword of the table that
\* occurs in the description, in table order
KeywordMatches(description) ==
  Flatten([c \in DOMAIN HEURISTIC_KEYWORDS |->
             LET e == HEURISTIC_KEYWORDS[c]
             IN  Flatten([k \in DOMAIN e.kws |->
                            IF Contains(description, e.kws[k])
                            THEN <<[cat |-> e.cat, keyword |-> e.kws[k]]>>
                            ELSE <<>>])])

\* category_counts[cat]
CategoryCount(matches, cat) == Cardinality({i \in DOMAIN matches : matches[i].cat = cat})

\* max(category_counts, key=category_counts.get): the first counted category
\* that has the largest count
MostFrequentCategory(matches) ==
  LET first == CHOOSE i \in DOMAIN matches :
                 /\ \A j \in DOMAIN matches :
                      CategoryCount(matches, matches[j].cat) <= CategoryCount(matches, matches[i].cat)
                 /\ \A j \in 1..(i - 1) :
                      CategoryCount(matches, matches[j].cat) < CategoryCount(matches, matches[i].cat)
  IN  matches[first].cat

SubcategoriesOf(category) ==
  LET i == CHOOSE i \in DOMAIN SUBCATEGORIES : SUBCATEGORIES[i].cat = category
  IN  SUBCATEGORIES[i].subs

\* subcat_mapping of _infer_subcategory
subcat_mapping ==
  <<
    [cat |-> "alimentacao", map |-> <<
       [keyword |-> <<"s", "u", "p", "e", "r", "m", "e", "r", "c", "a", "d", "o">>, subcat |-> <<"s", "u", "p", "e", "r", "m", "e", "r", "c", "a", "d", "o">>],
       [keyword |-> <<"m", "e", "r", "c", "a", "d", "o">>, subcat |-> <<"s", "u", "p", "e", "r", "m", "e", "r", "c", "a", "d", "o">>],
       [keyword |-> <<"p", "a", "d", "a", "r", "i", "a">>, subcat |-> <<"p", "a", "d", "a", "r", "i", "a">>],
       [keyword |-> <<"r", "e", "s", "t", "a", "u", "r", "a", "n", "t", "e">>, subcat |-> <<"r", "e", "s", "t", "a", "u", "r", "a", "n", "t", "e">>],
       [keyword |-> <<"l", "a", "n", "c", "h", "o", "n", "e", "t", "e">>, subcat |-> <<"l", "a", "n", "c", "h", "o", "n", "e", "t", "e">>],
       [keyword |-> <<"i", "f", "o", "o", "d">>, subcat |-> <<"d", "e", "l", "i", "v", "e", "r", "y">>],
       [keyword |-> <<"r", "a", "p", "p", "i">>, subcat |-> <<"d", "e", "l", "i", "v", "e", "r", "y">>]>>],
    [cat |-> "transporte", map |-> <<
       [keyword |-> <<"u", "b", "e", "r">>, subcat |-> <<"u", "b", "e", "r">>],
       [keyword |-> <<"9", "9">>, subcat |-> <<"t", "a", "x", "i">>],
       [keyword |-> <<"g", "a", "s">>, subcat |-> <<"c", "o", "m", "b", "u", "s", "t", "i", "v", "e", "l">>],
       [keyword |-> <<"g", "a", "s", "o", "l", "i", "n", "a">>, subcat |-> <<"c", "o", "m", "b", "u", "s", "t", "i", "v", "e", "l">>],
       [keyword |-> <<"p", "o", "s", "t", "o">>, subcat |-> <<"c", "o", "m", "b", "u", "s", "t", "i", "v", "e", "l">>]>>],
    [cat |-> "saude", map |-> <<
       [keyword |-> <<"f", "a", "r", "m", "a", "c", "i", "a">>, subcat |-> <<"f", "a", "r", "m", "a", "c", "i", "a">>],
       [keyword |-> <<"d", "r", "o", "g", "a", "r", "i", "a">>, subcat |-> <<"f", "a", "r", "m", "a", "c", "i", "a">>],
       [keyword |-> <<"c", "o", "n", "s", "u", "l", "t", "a">>, subcat |-> <<"c", "o", "n", "s", "u", "l", "t", "a">>],
       [keyword |-> <<"p", "l", "a", "n", "o">>, subcat |-> <<"p", "l", "a", "n", "o", "_", "s", "a", "u", "d", "e">>]>>],
    [cat |-> "contas", map |-> <<
       [keyword |-> <<"l", "u", "z">>, subcat |-> <<"l", "u", "z">>],
       [keyword |-> <<"e", "n", "e", "r", "g", "i", "a">>, subcat |-> <<"l", "u", "z">>],
       [keyword |-> <<"a", "g", "u", "a">>, subcat |-> <<"a", "g", "u", "a">>],
       [keyword |-> <<"i", "n", "t", "e", "r", "n", "e", "t">>, subcat |-> <<"i", "n", "t", "e", "r", "n", "e", "t">>],
       [keyword |-> <<"t", "e", "l", "e", "f", "o", "n", "e">>, subcat |-> <<"t", "e", "l", "e", "f", "o", "n", "e">>]>>],
    [cat |-> "renda", map |-> <<
       [keyword |-> <<"s", "a", "l", "a", "r", "i", "o">>, subcat |-> <<"s", "a", "l", "a", "r", "i", "o">>],
       [keyword |-> <<"f", "r", "e", "e", "l", "a", "n", "c", "e">>, subcat |-> <<"f", "r", "e", "e", "l", "a", "n", "c", "e">>]>>]
  >>

\* the first element of a sequence of candidates, or None
FirstOr(candidates, default) == IF candidates = <<>> THEN default ELSE candidates[1]

_infer_subcategory(category, description, matches) ==
  IF \/ ~\E i \in DOMAIN SUBCATEGORIES : SUBCATEGORIES[i].cat = category
     \/ SubcategoriesOf(category) = <<>>
  THEN None
  ELSE LET subs == SubcategoriesOf(category)
           fromMatches ==
             Flatten([m \in DOMAIN matches |->
                        IF matches[m].cat = category
                        THEN SelectSeq(subs, LAMBDA subcat :
                                         \/ Contains(matches[m].keyword, subcat)
                                         \/ Contains(subcat, matches[m].keyword))
                        ELSE <<>>])
           mapped ==
             IF \E i \in DOMAIN subcat_mapping : subcat_mapping[i].cat = category
             THEN LET e == subcat_mapping[CHOOSE i \in DOMAIN subcat_mapping :
                                            subcat_mapping[i].cat = category].map
                      hits == SelectSeq(e, LAMBDA p : Contains(description, p.keyword))
                  IN  [i \in DOMAIN hits |-> hits[i].subcat]
             ELSE <<>>
       IN  FirstOr(fromMatches, FirstOr(mapped, None))

\* _generate_explanation: which template is used and the keywords it may cite
\* (the first two of list(set(...)), whose order Python does not fix)
_generate_explanation(category, subcategory, matches) ==
  IF matches = <<>> THEN [template |-> "default", keywords_found |-> {}]
  ELSE [template |-> IF subcategory # None THEN "category/subcategory" ELSE "category",
        keywords_found |-> {matches[i].keyword : i \in {j \in DOMAIN matches : matches[j].cat = category}}]

\* lines 37-56: the category with the most matches, its confidence and
\* its subcategory
ScanFor(description, matches, category) ==
  [category |-> category,
   subcategory |-> _infer_subcategory(category, description, matches),
   confidence |-> Min(HEURISTIC_CONFIDENCE_MAX,
                      HEURISTIC_CONFIDENCE_MIN + CategoryCount(matches, category) * 10)]

\* lines 26-56
KeywordScan(description, matches) ==
  IF matches = <<>>
  THEN [category |-> "outros", subcategory |-> None, confidence |-> HEURISTIC_CONFIDENCE_MIN]
  ELSE ScanFor(description, matches, MostFrequentCategory(matches))

\* lines 58-62: the rule for high positive amounts (amount > 500)
HighAmountRule(c, amount) ==
  IF amount > 500000 /\ c.category = "outros"
  THEN [category |-> "renda", subcategory |-> <<"o", "u", "t", "r", "o", "s">>, confidence |-> 40]
  ELSE c

\* lines 64-68: the rule for transfers
TransferRule(c, description) ==
  IF ContainsAny(description, transfer_keywords)
  THEN [category |-> "transferencia",
        subcategory |-> IF Contains(description, <<"p", "i", "x">>) THEN <<"p", "i", "x">> ELSE <<"t", "e", "d">>,
        confidence |-> Min(60, c.confidence + 10)]
  ELSE c

\* lines 70-79
WithExplanation(c, matches) ==
  [category |-> c.category,
   subcategory |-> c.subcategory,
   confidence |-> c.confidence,
   explanation |-> _generate_explanation(c.category, c.subcategory, matches)]

\* HeuristicClassifier.classify, given the lower-cased description and matches
ClassifyLowered(description, amount, matches) ==
  WithExplanation(
    TransferRule(HighAmountRule(KeywordScan(description, matches), amount), description),
    matches)

\* HeuristicClassifier.classify on {'description': ..., 'amount': ...}
HeuristicClassify(txn_description, amount) ==
  ClassifyLowered(ToLower(txn_description), amount, KeywordMatches(ToLower(txn_description)))

(***************************************************************************)
(* validator.py: dates.  A date string is [kind, day]: "explicit" is read  *)
(* by one of DATE_FORMATS, "dayfirst" only by dateutil's parser, neither   *)
(* reads "unparseable" (ValueError), and on "overflow" dateutil's parser   *)
(* raises OverflowError (a number too large for a C integer).  The raw     *)
(* field is None, a text without a date pattern, or a text whose first     *)
(* date pattern is the date string it carries.                             *)
(***************************************************************************)
\* datetime.now().date(), the processing date
Today == 3

\* normalize_date returning None (days are numbered from 1)
NoDate == 0

NoRaw == [kind |-> "none"]

\* outcome of a call: a returned value or a raised exception class
Returned(v) == [raised |-> "no", value |-> v]
Raised(cls) == [raised |-> cls, value |-> None]

\* normalize_date(date_str, None)
normalize_date_no_raw(date_str) ==
  CASE date_str.kind = "nonstr" -> Raised("AttributeError")
    [] date_str.kind = "explicit" -> Returned(date_str.day)
    [] date_str.kind = "dayfirst" -> Returned(date_str.day)
    [] date_str.kind = "overflow" -> Raised("OverflowError")
    [] OTHER -> Returned(NoDate)

\* normalize_date(date_str, raw)
normalize_date(date_str, raw) ==
  LET direct == normalize_date_no_raw(date_str)
  IN  IF direct.raised # "no" \/ direct.value # NoDate THEN direct
      ELSE IF raw.kind = "match"
           THEN LET fromRaw == normalize_date_no_raw(raw.date)
                IN  IF fromRaw.raised = "no" THEN fromRaw ELSE Returned(NoDate)
           ELSE Returned(NoDate)

(***************************************************************************)
(* validator.py: validate_and_normalize_batch                              *)
(***************************************************************************)
RequiredFields == {"id", "date", "description", "amount"}

Note(kind, about) == [kind |-> kind, about |-> about]

\* lines 246-272 for a transaction whose date is settled: the
\* TransactionInput built and the notes appended, or the exception raised
NormalizeRest(txn, normalized_date, dateNotes, masking) ==
  IF txn.amount.kind = "text" THEN Raised("ValueError")
  ELSE IF txn.amount.kind = "none" THEN Raised("TypeError")
  ELSE IF txn.currency = "nonstr" THEN Raised("pydantic.ValidationError")
  ELSE Returned([txn |-> [id |-> txn.id,
                          date |-> normalized_date,
                          description |-> txn.description,
                          amount |-> normalize_amount(txn.amount.v, txn.description),
                          currency |-> IF txn.currency = "absent" THEN "BRL" ELSE txn.currency,
                          raw |-> txn.raw],
                 notes |-> dateNotes \o (IF masking.has_sensitive
                                         THEN <<Note("masked", txn.id)>> ELSE <<>>),
                 normalized_desc |-> masking.masked])

\* lines 234-244: the date, replaced by the processing date when
\* normalize_date returns None
NormalizeDated(txn, parsed) ==
  IF parsed.raised # "no" THEN parsed
  ELSE IF parsed.value = NoDate
  THEN NormalizeRest(txn, Today, <<Note("date", txn.id)>>,
                     mask_sensitive_data(normalize_description(txn.description)))
  ELSE NormalizeRest(txn, parsed.value, <<>>,
                     mask_sensitive_data(normalize_description(txn.description)))

\* the body of the loop over data['transactions'] for one element
NormalizeTransaction(txn) ==
  IF txn.kind # "dict" THEN Raised("TypeError")
  ELSE IF ~(RequiredFields \subseteq txn.keys) THEN Raised("ValidationError")
  ELSE NormalizeDated(txn, normalize_date(txn.date, txn.raw))

\* parse_csv: the rows as dictionaries, or the exception raised.  A cell a
\* row lacks is None (csv.DictReader); float(None) raises TypeError, which
\* parse_csv does not catch
parse_csv(csv) ==
  IF ~(RequiredFields \subseteq csv.header) THEN Raised("ValidationError")
  ELSE IF \E i \in DOMAIN csv.rows : csv.rows[i].amount.kind # "number"
  THEN LET first == CHOOSE i \in DOMAIN csv.rows :
                      /\ csv.rows[i].amount.kind # "number"
                      /\ \A j \in 1..(i - 1) : csv.rows[j].amount.kind = "number"
       IN  IF csv.rows[first].amount.kind = "text" THEN Raised("ValidationError")
           ELSE Raised("TypeError")
  ELSE IF csv.rows = <<>> THEN Raised("ValidationError")
  ELSE Returned([i \in DOMAIN csv.rows |-> [csv.rows[i] EXCEPT !.keys = csv.header]])

\* detect_duplicates, lines 304-306: the test on a pair
IsDuplicatePair(txn1, txn2) ==
  /\ Abs(txn1.amount - txn2.amount) < 10
  /\ txn1.date = txn2.date
  /\ Prefix(txn1.description, 20) = Prefix(txn2.description, 20)

\* a detection whose inner loop runs over the whole list
detect_duplicates_both_orders(transactions) ==
  Flatten([i \in DOMAIN transactions |->
             SelectSeq([j \in DOMAIN transactions |-> <<i, j>>],
                       LAMBDA p : p[1] # p[2] /\ IsDuplicatePair(transactions[p[1]], transactions[p[2]]))])

\* detect_duplicates: the list of index pairs (i, j) in the order of the two
\* loops, the inner one over transactions[i+1:]
detect_duplicates(transactions) ==
  Flatten([i \in DOMAIN transactions |->
             SelectSeq([k \in 1..(Len(transactions) - i) |-> <<i, i + k>>],
                       LAMBDA p : IsDuplicatePair(transactions[p[1]], transactions[p[2]]))])

NoUser == [kind |-> "none"]
NoHistory == [kind |-> "none", entries |-> <<>>]

\* a BatchInput that keeps only the first transaction of each group of
\* candidate duplicates
BatchInputDeduplicated(user_id, transactions, historical_data) ==
  LET first == SelectSeq([i \in DOMAIN transactions |-> i],
                         LAMBDA i : \A j \in 1..(i - 1) :
                                      ~IsDuplicatePair(transactions[j], transactions[i]))
  IN  Returned([user_id |-> user_id,
                transactions |-> [k \in DOMAIN first |-> transactions[first[k]]],
                historical_data |-> historical_data])

\* BatchInput(user_id=..., transactions=..., historical_data=...): pydantic
\* checks the field types and runs validate_batch_size
BatchInput(user_id, transactions, historical_data) ==
  IF \/ user_id.kind = "nonstr"
     \/ historical_data.kind = "nonlist"
     \/ Len(transactions) > MAX_TRANSACTIONS_PER_BATCH
  THEN Raised("pydantic.ValidationError")
  ELSE Returned([user_id |-> user_id,
                 transactions |-> transactions,
                 historical_data |-> historical_data])

\* a loop that skips the transactions it cannot normalize
NormalizeAllSkipInvalid(done, user_id, historical_data) ==
  LET kept == SelectSeq(done, LAMBDA d : d.raised = "no")
      built == BatchInput(user_id, [i \in DOMAIN kept |-> kept[i].value.txn], historical_data)
  IN  IF built.raised # "no" THEN built
      ELSE Returned([batch |-> built.value,
                     processing_notes |-> Flatten([i \in DOMAIN kept |-> kept[i].value.notes])])

\* lines 224-286: the loop and BatchInput(...), given the outcome of each
\* iteration
NormalizeAll(done, user_id, historical_data) ==
  IF \E i \in DOMAIN done : done[i].raised # "no" THEN Raised("ValidationError")
  ELSE LET built == BatchInput(user_id, [i \in DOMAIN done |-> done[i].value.txn], historical_data)
       IN  IF built.raised # "no" THEN built
           ELSE Returned([batch |-> built.value,
                          processing_notes |-> Flatten([i \in DOMAIN done |-> done[i].value.notes])])

\* lines 218-286 on the dictionary data
ValidateDict(data, items) ==
  IF data.kind \notin {"csv", "list", "dict"} \/ ~data.has_transactions THEN Raised("ValidationError")
  ELSE IF ~data.iterable THEN Raised("TypeError")
  ELSE NormalizeAll([i \in DOMAIN items |-> NormalizeTransaction(items[i])],
                    data.user_id, data.historical_data)

validate_and_normalize_batch(data) ==
  IF data.kind = "csv"
  THEN LET parsed == parse_csv(data)
       IN  IF parsed.raised # "no" THEN parsed ELSE ValidateDict(data, parsed.value)
  ELSE ValidateDict(data, data.transactions)


(***************************************************************************)
(* gemini_client.py: GeminiClient.  One call of the external service ends  *)
(* as [kind, payload]: "error" (the call raises: network, timeout, API     *)
(* error), "late" (it returns after more than GEMINI_TIMEOUT seconds),     *)
(* "empty" (no text) or "text"; the payload is what json.loads makes of    *)
(* the text once the markdown fence is removed.                            *)
(***************************************************************************)
\* None where a text or a dictionary is expected
Nothing == [json |-> "none"]

\* a generate_content that does not look at the elapsed time
generate_content_unclocked(outcome) ==
  CASE outcome.kind = "error" -> Nothing
    [] outcome.kind = "empty" -> Nothing
    [] OTHER -> outcome.payload

\* generate_content: the text returned, or None
generate_content(outcome) ==
  CASE outcome.kind = "error" -> Nothing
    [] outcome.kind = "late" -> Nothing
    [] outcome.kind = "empty" -> Nothing
    [] OTHER -> outcome.payload

\* GeminiClient.classify_transaction: the dictionary, None, or the exception
gemini_classify_transaction(outcome) ==
  LET response == generate_content(outcome)
  IN  IF response = Nothing THEN Returned(Nothing)
      ELSE IF response.json = "malformed" THEN Returned(Nothing)
      ELSE IF response.json = "scalar" THEN Raised("TypeError")
      ELSE IF ~({"category", "confidence"} \subseteq response.keys) THEN Returned(Nothing)
      ELSE Returned(response)

\* GeminiClient.generate_insights: the dictionary with 'alerts' and
\* 'recommendations' filled in when absent, None, or the exception
generate_insights(outcome) ==
  LET response == generate_content(outcome)
  IN  IF response = Nothing THEN Returned(Nothing)
      ELSE IF response.json = "malformed" THEN Returned(Nothing)
      ELSE IF response.json = "scalar" THEN Raised("TypeError")
      ELSE Returned([response EXCEPT
                       !.recommendations =
                          IF "recommendations" \in response.keys THEN @ ELSE <<>>,
                       !.keys = @ \cup {"alerts", "recommendations"}])

(***************************************************************************)
(* models.py and classifier.py                                             *)
(***************************************************************************)
\* a TransactionOutput whose confidence carries no range constraint
TransactionOutputUnbounded(category, confidence) ==
  /\ confidence.numeric
  /\ category \in VALID_CATEGORIES

\* TransactionOutput(...): Field(ge=0.0, le=1.0) on confidence and
\* validate_category
TransactionOutputValid(category, confidence) ==
  /\ confidence.numeric
  /\ confidence.v >= 0
  /\ confidence.v <= 100
  /\ category \in VALID_CATEGORIES

Conf(v) == [numeric |-> TRUE, v |-> v]

\* a check that forces an unknown category to 'outros' and keeps the
\* confidence returned
ValidateCategoryUncapped(c) ==
  IF c.category \in VALID_CATEGORIES THEN Returned(c)
  ELSE Returned([c EXCEPT !.category = "outros"])

\* lines 65-68: an unknown category becomes 'outros' with the confidence
\* capped at 0.3; min() raises on a confidence that is no number
ValidateCategory(c) ==
  IF c.category \in VALID_CATEGORIES THEN Returned(c)
  ELSE IF ~c.confidence.numeric THEN Raised("TypeError")
  ELSE Returned([c EXCEPT !.category = "outros", !.confidence = Conf(Min(c.confidence.v, 30))])

\* lines 70-85: TransactionOutput(...); model_version is the local variable
\* of classify_transaction, which the output does not carry
BuildOutput(transaction, c, model_version) ==
  IF c.raised # "no" THEN c
  ELSE IF ~TransactionOutputValid(c.value.category, c.value.confidence)
  THEN Raised("pydantic.ValidationError")
  ELSE Returned([id |-> transaction.id,
                 date |-> transaction.date,
                 description |-> transaction.description,
                 amount |-> transaction.amount,
                 currency |-> transaction.currency,
                 category |-> c.value.category,
                 subcategory |-> c.value.subcategory,
                 confidence |-> c.value.confidence.v,
                 normalized_description |-> normalize_description(transaction.description),
                 explanation |-> c.value.explanation,
                 model_version |-> model_version])

\* the classification a Gemini answer carries
FromGemini(answer) ==
  [category |-> answer.category,
   subcategory |-> answer.subcategory,
   confidence |-> answer.confidence,
   explanation |-> answer.explanation]

\* the heuristic classification, its confidence a number
FromHeuristic(h) == [h EXCEPT !.confidence = Conf(h.confidence)]

\* TransactionClassifier.classify_transaction; ai is the outcome of
\* gemini_client.classify_transaction (an exception it raised is caught and
\* leaves no classification), or Returned(Nothing) when it is not called
classify_transaction(transaction, ai) ==
  IF ai.raised = "no" /\ ai.value # Nothing
  THEN BuildOutput(transaction, ValidateCategory(FromGemini(ai.value)), "gemini-v1.0")
  ELSE BuildOutput(transaction,
                   ValidateCategory(FromHeuristic(
                     HeuristicClassify(transaction.description, transaction.amount))),
                   "heuristic-fallback-v1")

(***************************************************************************)
(* insights_generator.py: InsightsGenerator                                *)
(***************************************************************************)
\* config.py: TREND_THRESHOLD_UP, TREND_THRESHOLD_DOWN
TREND_THRESHOLD_UP == 5
TREND_THRESHOLD_DOWN == -5

RECURSIVE SumSeq(_)
SumSeq(s) == IF s = <<>> THEN 0 ELSE s[1] + SumSeq(Tail(s))

\* n / d rounded to the nearest integer, ties to even (d > 0)
RoundDiv(n, d) ==
  LET q == n \div d
      r == n - q * d
  IN  IF 2 * r > d THEN q + 1
      ELSE IF 2 * r < d THEN q
      ELSE IF q % 2 = 0 THEN q ELSE q + 1

\* round(x, 2) on an amount in mills
Round2(x) == RoundDiv(x, 10) * 10

\* the keys of a dictionary filled by a loop, in insertion order
RECURSIVE FirstOccurrences(_)
FirstOccurrences(keys) ==
  IF keys = <<>> THEN <<>>
  ELSE LET init == FirstOccurrences(SubSeq(keys, 1, Len(keys) - 1))
           last == keys[Len(keys)]
       IN  IF last \in Range(init) THEN init ELSE Append(init, last)

\* _calculate_by_category: the categories in insertion order and their totals
CategoriesOf(transactions) == FirstOccurrences([i \in DOMAIN transactions |-> transactions[i].category])

CategoryTotal(transactions, category) ==
  SumSeq([i \in DOMAIN transactions |->
            IF transactions[i].category = category THEN transactions[i].amount ELSE 0])

_calculate_by_category(transactions) ==
  LET cats == CategoriesOf(transactions)
  IN  [i \in DOMAIN cats |-> [category |-> cats[i], total |-> CategoryTotal(transactions, cats[i])]]

TotalIncome(transactions) ==
  SumSeq([i \in DOMAIN transactions |-> IF transactions[i].amount > 0 THEN transactions[i].amount ELSE 0])

\* the expenses summed with their sign
TotalExpensesSigned(transactions) ==
  SumSeq([i \in DOMAIN transactions |-> IF transactions[i].amount < 0 THEN transactions[i].amount ELSE 0])

TotalExpenses(transactions) ==
  Abs(SumSeq([i \in DOMAIN transactions |-> IF transactions[i].amount < 0 THEN transactions[i].amount ELSE 0]))

\* sorted(expense_categories.items(), key=abs total, reverse=True)[:3]: the
\* sort is stable, so equal totals keep their insertion order
Top3(by_category) ==
  LET expenses == SelectSeq(by_category, LAMBDA e : e.total < 0)
      \* rank of entry i in the sorted list
      Rank(i) == Cardinality({j \in DOMAIN expenses :
                                \/ Abs(expenses[j].total) > Abs(expenses[i].total)
                                \/ (Abs(expenses[j].total) = Abs(expenses[i].total) /\ j < i)}) + 1
      sorted == [r \in 1..Len(expenses) |-> expenses[CHOOSE i \in DOMAIN expenses : Rank(i) = r].category]
  IN  Prefix(sorted, 3)

\* _calculate_trends; change_pct is in tenths of a percent
HistoricalAmounts(historical_data, category) ==
  LET e == SelectSeq(historical_data.entries, LAMBDA h : h.category = category)
  IN  [i \in DOMAIN e |-> Abs(e[i].amount)]

Stable(category) == [category |-> category, change_pct |-> 0, direction |-> "stable"]

\* a trend whose direction is decided on the rounded change
TrendOfRounded(entry, historical_data) ==
  LET vals == HistoricalAmounts(historical_data, entry.category)
      total == SumSeq(vals)
      num == Abs(entry.total) * Len(vals) - total
      change_pct == RoundDiv(num * 1000, total)
  IN  IF vals # <<>> /\ total > 0
      THEN [category |-> entry.category,
            change_pct |-> change_pct,
            direction |-> IF change_pct >= TREND_THRESHOLD_UP * 10 THEN "up"
                          ELSE IF change_pct <= TREND_THRESHOLD_DOWN * 10 THEN "down"
                          ELSE "stable"]
      ELSE Stable(entry.category)

TrendOf(entry, historical_data) ==
  LET vals == HistoricalAmounts(historical_data, entry.category)
      total == SumSeq(vals)
      \* (current_abs - avg) / avg * 100 = num / total * 100
      num == Abs(entry.total) * Len(vals) - total
  IN  IF vals # <<>> /\ total > 0
      THEN [category |-> entry.category,
            change_pct |-> RoundDiv(num * 1000, total),
            direction |-> IF num * 100 >= TREND_THRESHOLD_UP * total THEN "up"
                          ELSE IF num * 100 <= TREND_THRESHOLD_DOWN * total THEN "down"
                          ELSE "stable"]
      ELSE Stable(entry.category)

_calculate_trends(current_by_category, historical_data) ==
  IF historical_data.entries = <<>>
  THEN [i \in DOMAIN current_by_category |-> Stable(current_by_category[i].category)]
  ELSE [i \in DOMAIN current_by_category |-> TrendOf(current_by_category[i], historical_data)]

\* lines 176-213: the alerts in the order _generate_alerts appends them
QualifyingAlerts(by_category, total_expenses, historical_data, transactions) ==
  LET high == SelectSeq(by_category,
                LAMBDA e : e.total < 0 /\ total_expenses > 0
                           /\ Abs(e.total) * 100 > 30 * total_expenses)
      highAlerts == [i \in DOMAIN high |-> [type |-> "high_spend", related_category |-> high[i].category]]
      lowTxns == SelectSeq(transactions, LAMBDA t : t.confidence < 50)
      lowCats == SelectSeq(CategoriesOf(lowTxns),
                   LAMBDA c : Len(SelectSeq(lowTxns, LAMBDA t : t.category = c)) >= 3)
      unusualAlerts == [i \in DOMAIN lowCats |-> [type |-> "unusual_category", related_category |-> lowCats[i]]]
      historical_total == SumSeq([i \in DOMAIN historical_data.entries |-> Abs(historical_data.entries[i].amount)])
      overall == IF /\ historical_data.entries # <<>>
                    /\ historical_total > 0
                    /\ (total_expenses - historical_total) * 100 > 20 * historical_total
                 THEN <<[type |-> "high_spend", related_category |-> "None"]>>
                 ELSE <<>>
  IN  highAlerts \o unusualAlerts \o overall

\* a cap that keeps the five alerts appended last
_generate_alerts_last_five(by_category, total_expenses, historical_data, transactions) ==
  LET alerts == QualifyingAlerts(by_category, total_expenses, historical_data, transactions)
  IN  IF Len(alerts) <= 5 THEN alerts ELSE SubSeq(alerts, Len(alerts) - 4, Len(alerts))

\* _generate_alerts: alerts[:5]
_generate_alerts(by_category, total_expenses, historical_data, transactions) ==
  Prefix(QualifyingAlerts(by_category, total_expenses, historical_data, transactions), 5)

\* the rule-based part of _generate_recommendations, appended to what the
\* list holds when it is reached
RuleRecommendations(recommendations, by_category, total_income, total_expenses, trend) ==
  LET savings == IF total_income > 0 /\ (total_income - total_expenses) * 100 < 10 * total_income
                 THEN <<[id |-> "rec_savings", source |-> "rule", impact_estimate_pct |-> 10]>>
                 ELSE <<>>
      expenses == {i \in DOMAIN by_category : by_category[i].total < 0}
      \* max(..., key=abs total): the first of the largest
      top == CHOOSE i \in expenses :
               /\ \A j \in expenses : Abs(by_category[j].total) <= Abs(by_category[i].total)
               /\ \A j \in expenses : j < i => Abs(by_category[j].total) < Abs(by_category[i].total)
      topTrend == trend[top]
      category == IF expenses # {} /\ topTrend.direction = "up"
                  THEN <<[id |-> "rec_category", source |-> "rule",
                          impact_estimate_pct |-> Abs(topTrend.change_pct) \div 10]>>
                  ELSE <<>>
      sofar == recommendations \o savings \o category
      general == IF sofar = <<>> /\ total_expenses * 10 > total_income * 8
                 THEN <<[id |-> "rec_general", source |-> "rule", impact_estimate_pct |-> 5]>>
                 ELSE <<>>
  IN  Prefix(sofar \o general, 3)

\* the Gemini part: the recommendations built from insights['recommendations'][:3]
\* before the first one that Recommendation(...) rejects
RECURSIVE AiRecommendations(_)
AiRecommendations(recs) ==
  IF recs = <<>> \/ ~recs[1].valid THEN <<>>
  ELSE <<[id |-> recs[1].id, source |-> "gemini", impact_estimate_pct |-> recs[1].impact_estimate_pct]>>
       \o AiRecommendations(Tail(recs))

\* recommendations that drop what was built from a response that fails
\* part-way before the rules run
_generate_recommendations_single_source(insights, by_category, total_income, total_expenses, trend) ==
  LET answered == insights.raised = "no" /\ insights.value # Nothing
      first3 == Prefix(insights.value.recommendations, 3)
      built == AiRecommendations(first3)
  IN  IF answered /\ Len(built) = Len(first3) THEN built
      ELSE RuleRecommendations(<<>>, by_category, total_income, total_expenses, trend)

\* _generate_recommendations; insights is the outcome of generate_insights,
\* or Returned(Nothing) when the client is not used
_generate_recommendations(insights, by_category, total_income, total_expenses, trend) ==
  LET answered == insights.raised = "no" /\ insights.value # Nothing
      first3 == Prefix(insights.value.recommendations, 3)
      built == AiRecommendations(first3)
  IN  IF answered /\ Len(built) = Len(first3) THEN built
      ELSE RuleRecommendations(IF answered THEN built ELSE <<>>,
                               by_category, total_income, total_expenses, trend)

MinOf(S) == CHOOSE x \in S : \A y \in S : x <= y
MaxOf(S) == CHOOSE x \in S : \A y \in S : x >= y

\* an empty summary that carries no period
_empty_summary_undated ==
  [period_start |-> NoDate, period_end |-> NoDate,
   total_income |-> 0, total_expenses |-> 0,
   by_category |-> <<>>, top_3_expense_categories |-> <<>>,
   trend |-> <<>>, alerts |-> <<>>, recommendations |-> <<>>]

_empty_summary ==
  [period_start |-> Today, period_end |-> Today,
   total_income |-> 0, total_expenses |-> 0,
   by_category |-> <<>>, top_3_expense_categories |-> <<>>,
   trend |-> <<>>, alerts |-> <<>>, recommendations |-> <<>>]

\* generate_summary
generate_summary(transactions, historical_data, insights) ==
  IF transactions = <<>> THEN _empty_summary
  ELSE LET by_category == _calculate_by_category(transactions)
           total_income == TotalIncome(transactions)
           total_expenses == TotalExpenses(transactions)
           dates == {transactions[i].date : i \in DOMAIN transactions}
           trend == _calculate_trends(by_category, historical_data)
       IN  [period_start |-> MinOf(dates), period_end |-> MaxOf(dates),
            total_income |-> Round2(total_income),
            total_expenses |-> Round2(total_expenses),
            by_category |-> [i \in DOMAIN by_category |->
                               [by_category[i] EXCEPT !.total = Round2(@)]],
            top_3_expense_categories |-> Top3(by_category),
            trend |-> trend,
            alerts |-> _generate_alerts(by_category, total_expenses, historical_data, transactions),
            recommendations |-> _generate_recommendations(insights, by_category, total_income,
                                                          total_expenses, trend)]

(***************************************************************************)
(* The inputs explored: what a caller may pass to process_transactions     *)
(* and what the external service may answer.                               *)
(***************************************************************************)
\* longest batch explored, apart from the oversized one
MaxBatch == 2

Explicit(d) == [kind |-> "explicit", day |-> d]
DayFirst(d) == [kind |-> "dayfirst", day |-> d]
Unparseable == [kind |-> "unparseable", day |-> 0]
Overflowing == [kind |-> "overflow", day |-> 0]
NotAString == [kind |-> "nonstr", day |-> 0]

Number(v) == [kind |-> "number", v |-> v]

RawTransaction(id, date, raw, description, amount) ==
  [kind |-> "dict", keys |-> RequiredFields \cup {"currency"},
   id |-> id, date |-> date, raw |-> raw, description |-> description,
   amount |-> amount, currency |-> "BRL"]

\* transactions that validation accepts
GoodTransactions ==
  { RawTransaction("t1", Explicit(1), NoRaw, <<"P", "A", "D", "A", "R", "I", "A">>, Number(-25904)),
    RawTransaction("t2", DayFirst(1), NoRaw, <<"P", "A", "D", "A", "R", "I", "A">>, Number(-25900)),
    RawTransaction("t3", Unparseable, NoRaw, <<"C", "P", "F", " ", "1", "2", "3", ".", "4", "5", "6", ".", "7", "8", "9", "-", "0", "0">>, Number(-10004)),
    RawTransaction("t4", Unparseable, [kind |-> "match", date |-> Explicit(2)],
                   <<"S", "A", "L", "A", "R", "I", "O", " ", " ", "#", "7">>, Number(-510004)),
    RawTransaction("t5", Explicit(2), [kind |-> "nomatch"], <<"P", "I", "X", " ", "J", "O", "A", "O">>, Number(50000)) }

Plain == RawTransaction("t9", Explicit(1), NoRaw, <<"L", "O", "J", "A">>, Number(-1000))

\* the bakery purchase of test_heuristic_classification, dated 10/11/2025
\* (day 1)
PadariaPaoDoce ==
  RawTransaction("t1", Explicit(1), NoRaw, <<"P", "A", "D", "A", "R", "I", "A", " ", "P", "A", "O", " ", "D", "O", "C", "E">>, Number(-25900))

\* a purchase whose description ends in two reference codes
TwoCodes == RawTransaction("t6", Explicit(1), NoRaw, <<"A", "B", " ", "1", "2", "3", "4", "5", " ", "6", "7", "8", "9", "0">>, Number(-1000))

\* amounts whose sign normalize_amount leaves or changes: a positive and a
\* zero amount on a purchase, a positive amount on a salary
SignCases ==
  { RawTransaction("t7", Explicit(1), NoRaw, <<"L", "O", "J", "A">>, Number(1000)),
    RawTransaction("t7", Explicit(1), NoRaw, <<"L", "O", "J", "A">>, Number(0)),
    RawTransaction("t8", Explicit(1), NoRaw, <<"S", "A", "L", "A", "R", "I", "O", " ", "N", "O", "V", "E", "M", "B", "R", "O">>, Number(400000)) }

\* the purchase Plain again, its description in another case and with a
\* repeated space and a stripped character around it
PlainRespelled == RawTransaction("t10", Explicit(1), NoRaw, <<"l", "o", "j", "a", " ", " ", "#">>, Number(-1000))

\* a purchase whose description is one character longer than
\* MAX_DESCRIPTION_LENGTH and has no space
TooLong ==
  RawTransaction("t11", Explicit(1), NoRaw,
                 [i \in 1..(MAX_DESCRIPTION_LENGTH + 1) |-> "x"], Number(-1000))

\* transactions that validation rejects
BadTransactions ==
  { [Plain EXCEPT !.keys = @ \ {"amount"}],
    [Plain EXCEPT !.amount = [kind |-> "text", v |-> 0]],
    [Plain EXCEPT !.kind = "number"],
    [Plain EXCEPT !.date = NotAString],
    [Plain EXCEPT !.date = Overflowing],
    [Plain EXCEPT !.currency = "nonstr"] }

\* rows of tabular text that parse_csv or the validation rejects: a
\* non-numeric amount, a row cut before its amount cell, a row cut before
\* its date cell
BadRows ==
  { [Plain EXCEPT !.amount = [kind |-> "text", v |-> 0]],
    [Plain EXCEPT !.amount = [kind |-> "none", v |-> 0]],
    [Plain EXCEPT !.date = NotAString] }

SeqsUpTo(S, n) == UNION {[1..k -> S] : k \in 0..n}

GoodBatches == SeqsUpTo(GoodTransactions, MaxBatch)

BadBatches ==
  {Append(b, t) : b \in SeqsUpTo(GoodTransactions, MaxBatch - 1), t \in BadTransactions}

BadCsvBatches ==
  {Append(b, t) : b \in SeqsUpTo(GoodTransactions, MaxBatch - 1), t \in BadRows}

\* one transaction more than MAX_TRANSACTIONS_PER_BATCH
Oversized == [i \in 1..(MAX_TRANSACTIONS_PER_BATCH + 1) |-> Plain]

SomeUser == [kind |-> "str"]
History ==
  [kind |-> "list",
   entries |-> <<[category |-> "alimentacao", amount |-> -20000],
                 [category |-> "alimentacao", amount |-> 22000],
                 [category |-> "lazer", amount |-> -100000]>>]

\* a history of 10.00 for purchases in shops, and a purchase 4.96% above it
ShopHistory == [kind |-> "list", entries |-> <<[category |-> "compras", amount |-> -10000]>>]
NearThreshold == RawTransaction("t12", Explicit(1), NoRaw, <<"L", "O", "J", "A">>, Number(-10496))

\* a purchase in a shop of 92% of the transfer received in the same batch
\* (GoodTransactions' t5), 4.6 times the history of ShopHistory
BigPurchase == RawTransaction("t13", Explicit(1), NoRaw, <<"L", "O", "J", "A">>, Number(-46000))
TransferReceived == RawTransaction("t5", Explicit(2), [kind |-> "nomatch"], <<"P", "I", "X", " ", "J", "O", "A", "O">>, Number(50000))

\* amounts above 500 entered as positive: on a description without any
\* keyword, and on a transfer
LargeUnnamed == RawTransaction("t14", Explicit(1), NoRaw, <<"X", "Y", "Z">>, Number(600000))
LargeTransfer == RawTransaction("t15", Explicit(1), NoRaw, <<"T", "E", "D", " ", "M", "A", "R", "I", "A">>, Number(600000))

Dict(transactions, user_id, historical_data) ==
  [kind |-> "dict", has_transactions |-> TRUE, iterable |-> TRUE,
   transactions |-> transactions, user_id |-> user_id, historical_data |-> historical_data,
   header |-> {}, rows |-> <<>>]

List(transactions) == [Dict(transactions, NoUser, NoHistory) EXCEPT !.kind = "list"]

Csv(header, rows) ==
  [Dict(<<>>, NoUser, NoHistory) EXCEPT !.kind = "csv", !.header = header, !.rows = rows]

Inputs ==
  \* structured objects
  {Dict(b, u.user, u.hist) :
     b \in GoodBatches \cup BadBatches,
     u \in {[user |-> NoUser, hist |-> NoHistory], [user |-> SomeUser, hist |-> History]}}
  \cup {Dict(Oversized, NoUser, NoHistory), Dict(<<PadariaPaoDoce>>, NoUser, NoHistory),
        Dict(<<TwoCodes>>, NoUser, NoHistory)}
  \cup {Dict(<<t>>, NoUser, NoHistory) : t \in SignCases}
  \cup {Dict(<<Plain, PlainRespelled>>, NoUser, NoHistory), Dict(<<TooLong>>, NoUser, NoHistory),
        Dict(<<NearThreshold>>, NoUser, ShopHistory)}
  \cup {Dict(<<TransferReceived, BigPurchase>>, NoUser, h) : h \in {NoHistory, ShopHistory}}
  \cup {Dict(<<LargeUnnamed, LargeTransfer>>, NoUser, NoHistory)}
  \* structured objects with a wrongly typed member, or without transactions
  \cup {[Dict(b, NoUser, NoHistory) EXCEPT !.user_id = [kind |-> "nonstr"]] : b \in SeqsUpTo({Plain}, 1)}
  \cup {[Dict(b, NoUser, NoHistory) EXCEPT !.historical_data = [kind |-> "nonlist", entries |-> <<>>]] :
          b \in SeqsUpTo({Plain}, 1)}
  \cup {[Dict(<<>>, NoUser, NoHistory) EXCEPT !.iterable = FALSE],
        [Dict(<<>>, NoUser, NoHistory) EXCEPT !.has_transactions = FALSE],
        [Dict(<<>>, NoUser, NoHistory) EXCEPT !.kind = "other"]}
  \* bare lists
  \cup {List(b) : b \in SeqsUpTo({Plain}, MaxBatch) \cup BadBatches \cup {Oversized}}
  \* tabular text
  \cup {Csv(h, b) : h \in {RequiredFields, RequiredFields \cup {"currency"}, RequiredFields \ {"amount"}},
                    b \in SeqsUpTo({Plain}, MaxBatch) \cup BadCsvBatches}

\* most transactions of one kind in a batch of AlertInputs
MaxPerCategory == 3

\* purchases that the keyword scan classifies with one keyword (confidence
\* 0.4) in a shop, a bakery and a ride, and a ride with two keywords
\* (confidence 0.5)
AlertTransaction(letter, i, description, amount) ==
  RawTransaction(letter \o ToString(i), Explicit(1), NoRaw, description, Number(amount))

RideKinds ==
  {[description |-> <<"U", "B", "E", "R">>, amount |-> -1000],
   [description |-> <<"U", "B", "E", "R">>, amount |-> -3000],
   [description |-> <<"U", "B", "E", "R", " ", "T", "A", "X", "I">>, amount |-> -3000]}

AlertBatch(a, b, c, ride) ==
  [i \in 1..a |-> AlertTransaction("a", i, <<"L", "O", "J", "A">>, -1000)]
  \o [i \in 1..b |-> AlertTransaction("b", i, <<"P", "A", "D", "A", "R", "I", "A">>, -1000)]
  \o [i \in 1..c |-> AlertTransaction("c", i, ride.description, ride.amount)]

\* a history whose total is 1.00
SmallHistory == [kind |-> "list", entries |-> <<[category |-> "compras", amount |-> -1000]>>]

\* batches of up to MaxPerCategory purchases of each kind, with and without
\* a history
AlertInputs ==
  {Dict(AlertBatch(a, b, c, ride), NoUser, h) :
     a \in 0..MaxPerCategory, b \in 0..MaxPerCategory, c \in 0..MaxPerCategory,
     ride \in RideKinds, h \in {NoHistory, SmallHistory}}

\* what the service may do on a classification call
Answer(category, confidence) ==
  [kind |-> "text",
   payload |-> [json |-> "object", keys |-> {"category", "confidence", "subcategory", "explanation"},
                category |-> category, subcategory |-> <<"c", "i", "n", "e", "m", "a">>,
                confidence |-> confidence, explanation |-> [template |-> "gemini", keywords_found |-> {}]]]

Failure(kind) == [kind |-> kind, payload |-> Nothing]

ClassificationOutcomes ==
  {Failure("error"), Failure("empty"), Failure("hang"),
   [Answer("lazer", Conf(95)) EXCEPT !.kind = "late"],
   [Answer("lazer", Conf(95)) EXCEPT !.payload.json = "malformed"],
   [Answer("lazer", Conf(95)) EXCEPT !.payload.json = "scalar"],
   [Answer("lazer", Conf(95)) EXCEPT !.payload.keys = {"category"}],
   Answer("lazer", Conf(95)), Answer("viagens", Conf(95)),
   Answer("lazer", Conf(150)), Answer("lazer", Conf(-20)),
   Answer("lazer", [numeric |-> FALSE, v |-> 0])}

\* what the service may do on the insights call
Rec(id, valid) == [id |-> id, valid |-> valid, impact_estimate_pct |-> 5]

Insights(keys, recommendations) ==
  [kind |-> "text",
   payload |-> [json |-> "object", keys |-> keys, recommendations |-> recommendations]]

InsightOutcomes ==
  {Failure("error"), Failure("empty"),
   [Insights({"alerts", "recommendations"}, <<Rec("rec_1", TRUE)>>) EXCEPT !.kind = "late"],
   [Insights({"alerts", "recommendations"}, <<Rec("rec_1", TRUE)>>) EXCEPT !.payload.json = "malformed"],
   [Insights({"alerts", "recommendations"}, <<Rec("rec_1", TRUE)>>) EXCEPT !.payload.json = "scalar"],
   Insights({}, <<>>),
   Insights({"alerts", "recommendations"}, <<>>),
   Insights({"alerts", "recommendations"}, <<Rec("rec_1", TRUE)>>),
   Insights({"alerts", "recommendations"}, <<Rec("rec_1", TRUE), Rec("rec_2", FALSE)>>),
   Insights({"alerts", "recommendations"},
            <<Rec("rec_1", TRUE), Rec("rec_2", TRUE), Rec("rec_3", FALSE)>>),
   Insights({"alerts", "recommendations"},
            <<Rec("rec_1", TRUE), Rec("rec_2", TRUE), Rec("rec_3", TRUE), Rec("rec_4", TRUE)>>)}

(***************************************************************************)
(* main_handler.py: process_transactions as a state machine.  One step is  *)
(* the validation, the classification of one transaction (with its call of *)
(* the external service, if any), or the summary and the assembly of the   *)
(* result.                                                                 *)
(***************************************************************************)
VARIABLES
  data,              \* the input
  use_gemini,        \* the flag passed by the caller
  api_key,           \* whether GEMINI_API_KEY is configured
  pc,                \* "start", "classify", "done"; "blocked" in a call that
                     \* does not return
  batch,             \* the BatchInput returned by the validation
  validator_notes,   \* processing_notes of validate_and_normalize_batch
  processing_notes,  \* processing_notes of process_transactions
  classified,        \* classified_transactions so far
  last_call,         \* what the external service did on the most recent call
  calls,             \* number of calls of the external service
  response           \* what process_transactions returns

vars == <<data, use_gemini, api_key, pc, batch, validator_notes, processing_notes,
          classified, last_call, calls, response>>

NoBatch == [user_id |-> NoUser, transactions |-> <<>>, historical_data |-> NoHistory]
NoCall == [purpose |-> "none", index |-> 0, outcome |-> Failure("none")]
NoResponse == [kind |-> "none"]

\* ErrorResponse(error={code, message, hint})
ErrorResponse(code, exception) ==
  [kind |-> "error", code |-> code, message |-> exception, hint |-> TRUE]

Init ==
  /\ data \in Inputs
  /\ use_gemini \in BOOLEAN
  /\ api_key \in BOOLEAN
  /\ pc = "start"
  /\ batch = NoBatch
  /\ validator_notes = <<>>
  /\ processing_notes = <<>>
  /\ classified = <<>>
  /\ last_call = NoCall
  /\ calls = 0
  /\ response = NoResponse

\* a handler that answers a failure with what it has classified so far
FailWithPartialResult(exception) ==
  /\ response' = [kind |-> "result",
                  user_id |-> batch.user_id,
                  transactions |-> classified,
                  summary |-> _empty_summary,
                  model_version |-> "heuristic-fallback-v1",
                  processing_notes |-> processing_notes]
  /\ pc' = "done"

\* the except clauses of process_transactions
Fail(exception) ==
  /\ response' = ErrorResponse(IF exception = "ValidationError" THEN 400 ELSE 500, exception)
  /\ pc' = "done"

\* lines 35-44: validate_and_normalize_batch and detect_duplicates
Validate ==
  /\ pc = "start"
  /\ LET v == validate_and_normalize_batch(data)
     IN  IF v.raised # "no"
         THEN /\ Fail(v.raised)
              /\ UNCHANGED <<batch, validator_notes, processing_notes>>
         ELSE LET duplicates == detect_duplicates(v.value.batch.transactions)
              IN  /\ batch' = v.value.batch
                  /\ validator_notes' = v.value.processing_notes
                  /\ processing_notes' =
                       IF duplicates # <<>>
                       THEN <<Note("duplicates", Len(duplicates))>>
                       ELSE <<>>
                  /\ pc' = "classify"
                  /\ UNCHANGED response
  /\ UNCHANGED <<data, use_gemini, api_key, classified, last_call, calls>>

\* TransactionClassifier.__init__ and InsightsGenerator.__init__: the client
\* exists when Gemini is asked for and GeminiClient() does not raise
HasClient == use_gemini /\ api_key

\* one iteration of classify_batch, given what gemini_client returned
Classify(ai) ==
  LET out == classify_transaction(batch.transactions[Len(classified) + 1], ai)
  IN  IF out.raised # "no"
      THEN Fail(out.raised) /\ UNCHANGED classified
      ELSE classified' = Append(classified, out.value) /\ UNCHANGED <<pc, response>>

ClassifyHeuristic ==
  /\ pc = "classify"
  /\ Len(classified) < Len(batch.transactions)
  /\ ~HasClient
  /\ Classify(Returned(Nothing))
  /\ UNCHANGED <<data, use_gemini, api_key, batch, validator_notes, processing_notes,
                 last_call, calls>>

\* a classification step that calls the service a second time when the first
\* call gives nothing usable
ClassifyGeminiRetrying ==
  /\ pc = "classify"
  /\ Len(classified) < Len(batch.transactions)
  /\ HasClient
  /\ \E outcome \in ClassificationOutcomes :
       /\ last_call' = [purpose |-> "classify", index |-> Len(classified) + 1, outcome |-> outcome]
       /\ IF outcome.kind = "hang"
          THEN pc' = "blocked" /\ UNCHANGED <<classified, response>>
          ELSE Classify(gemini_classify_transaction(outcome))
       /\ calls' = IF gemini_classify_transaction(outcome) = Returned(Nothing)
                   THEN calls + 2 ELSE calls + 1
  /\ UNCHANGED <<data, use_gemini, api_key, batch, validator_notes, processing_notes>>

ClassifyGemini ==
  /\ pc = "classify"
  /\ Len(classified) < Len(batch.transactions)
  /\ HasClient
  /\ \E outcome \in ClassificationOutcomes :
       /\ last_call' = [purpose |-> "classify", index |-> Len(classified) + 1, outcome |-> outcome]
       /\ IF outcome.kind = "hang"
          \* self.model.generate_content is called without a deadline: the
          \* handler waits for as long as the service does not answer
          THEN pc' = "blocked" /\ UNCHANGED <<classified, response>>
          ELSE Classify(gemini_classify_transaction(outcome))
  /\ calls' = calls + 1
  /\ UNCHANGED <<data, use_gemini, api_key, batch, validator_notes, processing_notes>>

\* lines 56-89: model version, summary and result, given what
\* generate_insights returned
Assemble(insights) ==
  LET low_conf_count == Len(SelectSeq(classified, LAMBDA t : t.confidence < 60))
      fallback == use_gemini /\ low_conf_count * 10 > Len(classified) * 3
      notes == IF fallback
               THEN Append(processing_notes, Note("fallback", low_conf_count))
               ELSE processing_notes
  IN  /\ processing_notes' = notes
      /\ response' =
           [kind |-> "result",
            user_id |-> batch.user_id,
            transactions |-> classified,
            summary |-> generate_summary(classified, batch.historical_data, insights),
            model_version |-> IF fallback THEN "gemini-v1.0-with-fallback"
                              ELSE IF use_gemini THEN "gemini-v1.0"
                              ELSE "heuristic-fallback-v1",
            processing_notes |-> notes]
      /\ pc' = "done"

SummarizeRules ==
  /\ pc = "classify"
  /\ Len(classified) = Len(batch.transactions)
  /\ ~HasClient \/ classified = <<>>
  /\ Assemble(Returned(Nothing))
  /\ UNCHANGED <<data, use_gemini, api_key, batch, validator_notes, classified, last_call, calls>>

SummarizeGemini ==
  /\ pc = "classify"
  /\ Len(classified) = Len(batch.transactions)
  /\ HasClient /\ classified # <<>>
  /\ \E outcome \in InsightOutcomes :
       /\ last_call' = [purpose |-> "insights", index |-> 0, outcome |-> outcome]
       /\ Assemble(generate_insights(outcome))
  /\ calls' = calls + 1
  /\ UNCHANGED <<data, use_gemini, api_key, batch, validator_notes, classified>>

Next == Validate \/ ClassifyHeuristic \/ ClassifyGemini \/ SummarizeRules \/ SummarizeGemini

Spec == Init /\ [][Next]_vars

\* process_transactions(data, use_gemini=False) on the batches of AlertInputs
AlertInit ==
  /\ data \in AlertInputs
  /\ use_gemini = FALSE
  /\ api_key \in BOOLEAN
  /\ pc = "start"
  /\ batch = NoBatch
  /\ validator_notes = <<>>
  /\ processing_notes = <<>>
  /\ classified = <<>>
  /\ last_call = NoCall
  /\ calls = 0
  /\ response = NoResponse

AlertNext == Validate \/ ClassifyHeuristic \/ SummarizeRules

AlertSpec == AlertInit /\ [][AlertNext]_vars
(***************************************************************************)
(* Properties                                                              *)
(***************************************************************************)
Done == pc = "done"
IsResult == response.kind = "result"
IsError == response.kind = "error"

\* the transactions of the input, in input order
InputItems == IF data.kind = "csv" THEN data.rows ELSE data.transactions

\* the input is a structured object, a bare list or tabular text that
\* carries a sequence of transactions
CarriesTransactions ==
  /\ data.kind \in {"dict", "list", "csv"}
  /\ data.has_transactions
  /\ data.iterable

\* C1: an input whose transaction count exceeds MAX_TRANSACTIONS_PER_BATCH
\* ends in an error payload with code 400, never in a result
C1_OversizedBatchIs400 ==
  (Done /\ CarriesTransactions /\ Len(InputItems) > MAX_TRANSACTIONS_PER_BATCH)
    => (IsError /\ response.code = 400)

\* C2: process_transactions ends in a complete result (one classified
\* transaction per input transaction, and a summary) or in a single error
\* object {code, message, hint} with code 400 or 500; until it ends nothing
\* is returned
C2_ResultOrError ==
  /\ ~Done => response = NoResponse
  /\ Done =>
       \/ /\ IsResult
          /\ CarriesTransactions
          /\ Len(response.transactions) = Len(InputItems)
          /\ DOMAIN response.summary = DOMAIN _empty_summary
       \/ /\ IsError
          /\ DOMAIN response = {"kind", "code", "message", "hint"}
          /\ response.code \in {400, 500}

\* a result in Gemini mode whose second transaction fell back on the
\* heuristic after the first was classified by Gemini
C2_Witness ==
  /\ Done /\ IsResult /\ use_gemini /\ api_key
  /\ Len(response.transactions) = 2
  /\ response.transactions[1].model_version = "gemini-v1.0"
  /\ response.transactions[2].model_version = "heuristic-fallback-v1"

\* C3: in every result each output transaction's category is one of the 11
\* valid categories and its confidence lies in [0, 1]
C3_CategoryAndConfidenceValid ==
  IsResult =>
    \A i \in DOMAIN response.transactions :
      /\ response.transactions[i].category \in VALID_CATEGORIES
      /\ response.transactions[i].confidence >= 0
      /\ response.transactions[i].confidence <= 100

\* a result with a transaction for which Gemini returned an unknown category
C3_Witness ==
  /\ IsResult
  /\ \E i \in DOMAIN response.transactions :
       /\ response.transactions[i].model_version = "gemini-v1.0"
       /\ response.transactions[i].category = "outros"
       /\ response.transactions[i].confidence = 30

\* a failure of the external service as C4 lists them: timeout or network
\* error, late answer, empty response, malformed JSON, missing required keys
ServiceFailure(call) ==
  /\ call.outcome.kind # "hang"
  /\ \/ call.outcome.kind \in {"error", "late", "empty"}
     \/ call.outcome.payload.json = "malformed"
     \/ call.purpose = "classify" /\ ~({"category", "confidence"} \subseteq call.outcome.payload.keys)
     \/ call.purpose = "insights" /\ ~({"recommendations"} \subseteq call.outcome.payload.keys)

\* the rule-based recommendations for the transactions classified
RuleBasedFallback ==
  generate_summary(classified, batch.historical_data, Returned(Nothing)).recommendations

\* C4: in Gemini mode a failure of the external service never yields an
\* error: the transaction whose classification call failed carries the
\* heuristic classification, and after a failed insights call the
\* recommendations are the rule-based ones
C4_ServiceFailuresAbsorbed ==
  /\ (last_call.purpose = "classify" /\ ServiceFailure(last_call))
       => /\ ~IsError
          /\ Len(classified) = last_call.index
          /\ classified[last_call.index].model_version = "heuristic-fallback-v1"
  /\ (last_call.purpose = "insights" /\ ServiceFailure(last_call))
       => /\ IsResult
          /\ response.summary.recommendations = RuleBasedFallback

\* sum of the amounts of the transactions with index in I
RECURSIVE AmountSum(_, _)
AmountSum(T, I) ==
  IF I = {} THEN 0
  ELSE LET i == CHOOSE i \in I : TRUE
       IN  T[i].amount + AmountSum(T, I \ {i})

Positive(T) == {i \in DOMAIN T : T[i].amount > 0}
Negative(T) == {i \in DOMAIN T : T[i].amount < 0}
InCategory(T, c) == {i \in DOMAIN T : T[i].category = c}

RECURSIVE TotalSum(_)
TotalSum(entries) ==
  IF entries = <<>> THEN 0 ELSE entries[1].total + TotalSum(Tail(entries))

\* C5 as claimed: total_income is the sum of the positive amounts,
\* total_expenses the sum of the absolute values of the negative amounts,
\* and the by_category values sum to total_income - total_expenses
C5_ExactTotals ==
  (IsResult /\ response.transactions # <<>>) =>
    LET T == response.transactions
        S == response.summary
    IN  /\ S.total_income = AmountSum(T, Positive(T))
        /\ S.total_expenses = -AmountSum(T, Negative(T))
        /\ S.total_income >= 0 /\ S.total_expenses >= 0
        /\ TotalSum(S.by_category) = S.total_income - S.total_expenses

\* C5 amended: the totals and each by_category value are the sums rounded
\* to 2 decimals, and the by_category values sum to total_income -
\* total_expenses when every amount is a whole number of cents
C5_RoundedTotals ==
  (IsResult /\ response.transactions # <<>>) =>
    LET T == response.transactions
        S == response.summary
    IN  /\ S.total_income = Round2(AmountSum(T, Positive(T)))
        /\ S.total_expenses = Round2(-AmountSum(T, Negative(T)))
        /\ S.total_income >= 0 /\ S.total_expenses >= 0
        /\ {S.by_category[k].category : k \in DOMAIN S.by_category} = {T[i].category : i \in DOMAIN T}
        /\ \A k \in DOMAIN S.by_category :
             S.by_category[k].total = Round2(AmountSum(T, InCategory(T, S.by_category[k].category)))
        /\ (\A i \in DOMAIN T : T[i].amount % 10 = 0)
             => TotalSum(S.by_category) = S.total_income - S.total_expenses

\* a result with an income and an expense in whole cents
C5_Witness ==
  /\ IsResult
  /\ Positive(response.transactions) # {}
  /\ Negative(response.transactions) # {}
  /\ \A i \in DOMAIN response.transactions : response.transactions[i].amount % 10 = 0
  /\ Cardinality({response.transactions[i].category : i \in DOMAIN response.transactions}) = 2

\* the candidate duplicate pairs among the output transactions
DuplicatePairs(T) ==
  {p \in (DOMAIN T) \X (DOMAIN T) :
     /\ p[1] < p[2]
     /\ T[p[1]].amount - T[p[2]].amount \in -9..9
     /\ T[p[1]].date = T[p[2]].date
     /\ SubSeq(T[p[1]].description, 1, Min(20, Len(T[p[1]].description)))
          = SubSeq(T[p[2]].description, 1, Min(20, Len(T[p[2]].description)))}

\* C6: a result holds exactly one output transaction per input transaction,
\* in input order and with the same ids; duplicate pairs only add a
\* processing note that states their count
C6_DuplicatesReportOnly ==
  IsResult =>
    LET T == response.transactions
        n == Cardinality(DuplicatePairs(T))
    IN  /\ Len(T) = Len(InputItems)
        /\ \A i \in DOMAIN T : T[i].id = InputItems[i].id
        /\ n > 0 => Note("duplicates", n) \in Range(response.processing_notes)
        /\ n = 0 => ~\E k \in DOMAIN response.processing_notes :
                       response.processing_notes[k].kind = "duplicates"

\* a result for two transactions that are candidate duplicates
C6_Witness ==
  /\ IsResult
  /\ Len(response.transactions) = 2
  /\ DuplicatePairs(response.transactions) = {<<1, 2>>}
  /\ response.transactions[1].id # response.transactions[2].id

\* the text has a match of a sensitive pattern
HasSensitiveMatch(text) ==
  \E p \in DOMAIN SENSITIVE_PATTERNS : ReSearch(SENSITIVE_PATTERNS[p], text)

\* C7: no output normalized_description contains a match of a sensitive
\* pattern: the match is replaced by '***'
C7_SensitiveDataMasked ==
  IsResult =>
    \A i \in DOMAIN response.transactions :
      ~HasSensitiveMatch(response.transactions[i].normalized_description)

\* C8: every best-effort correction made by the normalization (processing
\* date substituted for an unparseable date, sensitive data masked) has its
\* note in the processing_notes of the result
C8_CorrectionsNoted ==
  IsResult =>
    \A k \in DOMAIN validator_notes : validator_notes[k] \in Range(response.processing_notes)

\* the date string of the transaction is a string that no strategy parses
NoStrategyParses(txn) ==
  /\ txn.date.kind \in {"unparseable", "overflow"}
  /\ txn.raw.kind = "match" => txn.raw.date.kind \in {"unparseable", "overflow"}

\* the transaction is valid, whatever its date string
ValidButForDate(txn) ==
  /\ txn.kind = "dict"
  /\ RequiredFields \subseteq txn.keys
  /\ txn.date.kind # "nonstr"
  /\ txn.amount.kind = "number"
  /\ txn.currency # "nonstr"

\* the validation rejected the input
Rejected == IsError /\ batch = NoBatch

\* C9: a date string that no strategy parses never causes the batch to be
\* rejected; the transaction gets the processing date, and every output date
\* is a calendar date
C9_UnparseableDateKept ==
  (pc # "start" /\ data.kind \in {"dict", "list"} /\ CarriesTransactions
        /\ data.user_id.kind # "nonstr" /\ data.historical_data.kind # "nonlist"
        /\ Len(InputItems) <= MAX_TRANSACTIONS_PER_BATCH
        /\ \A i \in DOMAIN InputItems : ValidButForDate(InputItems[i]))
    => /\ ~Rejected
       /\ Len(batch.transactions) = Len(InputItems)
       /\ \A i \in DOMAIN batch.transactions :
            /\ batch.transactions[i].date >= 1
            /\ NoStrategyParses(InputItems[i]) => batch.transactions[i].date = Today
       /\ IsResult => \A i \in DOMAIN response.transactions :
                        response.transactions[i].date = batch.transactions[i].date

\* C10: an input rejected because of its own shape or content is reported
\* with code 400, never with code 500
C10_MalformedInputIs400 ==
  Rejected => response.code = 400

\* C11: in heuristic-only mode the purchase 'PADARIA PAO DOCE' of -25.90 on
\* 10/11/2025 is output with category 'alimentacao', the date 2025-11-10 and
\* a confidence of at least 0.3
C11_BakeryIsFood ==
  (IsResult /\ ~use_gemini /\ data.kind = "dict" /\ data.transactions = <<PadariaPaoDoce>>)
    => /\ Len(response.transactions) = 1
       /\ response.transactions[1].category = "alimentacao"
       /\ response.transactions[1].date = PadariaPaoDoce.date.day
       /\ response.transactions[1].confidence >= 30

\* a structured input (object or bare list), well typed, whose transaction
\* list is empty
EmptyInput ==
  /\ data.kind \in {"dict", "list"}
  /\ CarriesTransactions
  /\ data.transactions = <<>>
  /\ data.user_id.kind # "nonstr"
  /\ data.historical_data.kind # "nonlist"

\* C12: an empty transaction list yields, in either mode, a result with no
\* output transactions and a summary with zero totals, empty by_category,
\* top 3, alerts and recommendations, and the processing date as period
C12_EmptyBatchZeroSummary ==
  (pc # "start" /\ EmptyInput) =>
    /\ ~IsError
    /\ batch.transactions = <<>>
    /\ calls = 0
    /\ Done =>
         /\ IsResult
         /\ response.transactions = <<>>
         /\ response.summary.total_income = 0
         /\ response.summary.total_expenses = 0
         /\ response.summary.by_category = <<>>
         /\ response.summary.top_3_expense_categories = <<>>
         /\ response.summary.alerts = <<>>
         /\ response.summary.recommendations = <<>>
         /\ response.summary.period_start = Today
         /\ response.summary.period_end = Today

\* the result for an empty list with a user and a history, in Gemini mode
C12_Witness ==
  /\ Done /\ IsResult /\ EmptyInput
  /\ use_gemini /\ api_key
  /\ data.historical_data.kind = "list"
  /\ response.summary.period_start = Today

\* the transaction is one the validation cannot normalize
InvalidTransaction(txn) ==
  \/ txn.kind # "dict"
  \/ ~(RequiredFields \subseteq txn.keys)
  \/ txn.amount.kind # "number"
  \/ txn.date.kind \in {"nonstr", "overflow"}
  \/ txn.currency = "nonstr"

\* tabular text whose header lacks a required column
HeaderLacksColumn == data.kind = "csv" /\ ~(RequiredFields \subseteq data.header)

\* some transaction of the input fails validation
SomeTransactionInvalid ==
  /\ CarriesTransactions
  /\ \E i \in DOMAIN InputItems : InvalidTransaction(InputItems[i])

\* C13: validation of the whole batch precedes all classification: tabular
\* text whose header lacks a required column ends in a validation error
\* (code 400), and when a transaction of the batch fails validation no
\* transaction is ever classified and the external service is never called
C13_ValidationPrecedesClassification ==
  /\ (HeaderLacksColumn \/ SomeTransactionInvalid) =>
       /\ classified = <<>>
       /\ calls = 0
       /\ last_call = NoCall
       /\ Done => IsError
  /\ (HeaderLacksColumn /\ Done) => response.code = 400

\* Gemini mode: the second transaction of the batch is invalid, the first is
\* not, and the run ended without a classification or a service call
C13_Witness ==
  /\ Done /\ IsError
  /\ use_gemini /\ api_key
  /\ data.kind = "dict"
  /\ Len(data.transactions) = 2
  /\ ~InvalidTransaction(data.transactions[1])
  /\ InvalidTransaction(data.transactions[2])
  /\ calls = 0

\* number of output transactions that the AI adapter classified
ClassifiedByAdapter(T) ==
  Cardinality({i \in DOMAIN T : T[i].model_version = "gemini-v1.0"})

\* C14: the result's model_version is the plain tag 'gemini-v1.0' only when
\* the AI adapter classified most of the transactions; with AI mode disabled
\* it is 'heuristic-fallback-v1'
C14_ModelVersionReflectsPath ==
  (IsResult /\ response.transactions # <<>>) =>
    /\ response.model_version = "gemini-v1.0"
         => 2 * ClassifiedByAdapter(response.transactions) > Len(response.transactions)
    /\ ~use_gemini => response.model_version = "heuristic-fallback-v1"

\* C15: a call of the external service never holds up a batch in AI mode:
\* the handler is never left waiting in a call that does not return (such a
\* call is abandoned at the timeout and the transaction gets the heuristic
\* classification), so that it always has a next step until it completes
C15_BatchCompletes ==
  (use_gemini /\ api_key) =>
    /\ pc \in {"start", "classify", "done"}
    /\ (pc = "classify" /\ last_call.purpose = "classify" /\ last_call.outcome.kind \in {"late", "hang"})
         => /\ Len(classified) = last_call.index
            /\ classified[last_call.index].model_version = "heuristic-fallback-v1"

\* C16: normalize_description is idempotent: normalizing the normalized
\* description of a transaction again returns it unchanged
C16_NormalizeDescriptionIdempotent ==
  \A i \in DOMAIN classified :
    /\ classified[i].normalized_description = normalize_description(classified[i].description)
    /\ normalize_description(classified[i].normalized_description)
         = classified[i].normalized_description

\* the two transactions are candidate duplicates: amounts less than 0.01
\* apart, same date, same first 20 characters of the description
Candidates(a, b) ==
  /\ a.amount - b.amount < 10
  /\ b.amount - a.amount < 10
  /\ a.date = b.date
  /\ \A k \in 1..20 :
       /\ (k <= Len(a.description)) = (k <= Len(b.description))
       /\ k <= Len(a.description) => a.description[k] = b.description[k]

\* the permutations of 1..n
Reorderings(n) == {f \in [1..n -> 1..n] : \A a, b \in 1..n : f[a] = f[b] => a = b}

\* the unordered pairs, in the indices of the list T, that detect_duplicates
\* reports for T reordered by f
ReportedPairs(T, f) ==
  LET reported == detect_duplicates([k \in DOMAIN T |-> T[f[k]]])
  IN  {{f[reported[k][1]], f[reported[k][2]]} : k \in DOMAIN reported}

\* C17: detect_duplicates reports each candidate pair exactly once, as
\* (i, j) with i < j, and reports the same unordered pairs for every
\* reordering of the list; two transactions with the same amount, date and
\* description give exactly one pair
C17_DuplicatesOncePerPair ==
  LET T == batch.transactions
      reported == detect_duplicates(T)
  IN  /\ \A k \in DOMAIN reported :
           /\ reported[k][1] \in DOMAIN T /\ reported[k][2] \in DOMAIN T
           /\ reported[k][1] < reported[k][2]
           /\ \A m \in DOMAIN reported : reported[m] = reported[k] => m = k
      /\ \A i, j \in DOMAIN T :
           (i < j /\ Candidates(T[i], T[j])) => \E k \in DOMAIN reported : reported[k] = <<i, j>>
      /\ \A k \in DOMAIN reported : Candidates(T[reported[k][1]], T[reported[k][2]])
      /\ \A f \in Reorderings(Len(T)) :
           ReportedPairs(T, f) = {{reported[k][1], reported[k][2]} : k \in DOMAIN reported}
      /\ (Len(T) = 2 /\ Candidates(T[1], T[2])) => reported = <<(<<1, 2>>)>>

\* a batch of two transactions with the same amount, date and description
C17_Witness ==
  /\ pc = "classify"
  /\ Len(batch.transactions) = 2
  /\ batch.transactions[1].amount = batch.transactions[2].amount
  /\ batch.transactions[1].date = batch.transactions[2].date
  /\ batch.transactions[1].description = batch.transactions[2].description
  /\ Len(detect_duplicates(batch.transactions)) = 1
  /\ processing_notes = <<Note("duplicates", 1)>>

\* the lower-cased description contains one of the words
Mentions(description, words) ==
  LET low == ToLower(description)
  IN  \E w \in words : \E i \in 1..(Len(low) - Len(w) + 1) :
        SubSeq(low, i, i + Len(w) - 1) = w

IncomeWords == Range(income_keywords)
TransferWords == Range(transfer_keywords)

\* the input was accepted by the validation: batch holds its transactions
Accepted ==
  /\ CarriesTransactions
  /\ InputItems # <<>>
  /\ Len(batch.transactions) = Len(InputItems)

\* C18: normalize_amount keeps the absolute value of the amount and fixes
\* its sign: positive for a negative amount on an income description,
\* negative for a positive amount on a description that names neither an
\* income nor a transfer, unchanged in every other case
C18_AmountSignRules ==
  Accepted =>
    \A i \in DOMAIN InputItems :
      LET a == InputItems[i].amount.v
          d == InputItems[i].description
          r == batch.transactions[i].amount
          income == Mentions(d, IncomeWords)
          transfer == Mentions(d, TransferWords)
      IN  /\ r = normalize_amount(a, d)
          /\ (r = a \/ r = -a)
          /\ (income /\ a < 0) => (r = -a /\ r > 0)
          /\ (~income /\ ~transfer /\ a > 0) => (r = -a /\ r < 0)
          /\ (~(income /\ a < 0) /\ ~(~income /\ ~transfer /\ a > 0)) => r = a

\* a batch with a positive amount on a transfer, kept, next to a negative
\* amount on a salary, made positive
C18_Witness ==
  /\ Accepted
  /\ \E i, j \in DOMAIN InputItems :
       /\ Mentions(InputItems[i].description, TransferWords)
       /\ InputItems[i].amount.v > 0
       /\ batch.transactions[i].amount = InputItems[i].amount.v
       /\ Mentions(InputItems[j].description, IncomeWords)
       /\ InputItems[j].amount.v < 0
       /\ batch.transactions[j].amount = -InputItems[j].amount.v

\* the classification part of an output transaction
ClassificationOf(out) ==
  [category |-> out.category, subcategory |-> out.subcategory,
   confidence |-> out.confidence, explanation |-> out.explanation]

\* the output carries exactly the heuristic classification of the transaction
IsHeuristicOutput(out, txn) ==
  /\ out.model_version = "heuristic-fallback-v1"
  /\ ClassificationOf(out) = HeuristicClassify(txn.description, txn.amount)

\* the output carries what the adapter returned, its category checked
IsAdapterOutput(out, answer) ==
  /\ out.model_version = "gemini-v1.0"
  /\ out.subcategory = answer.subcategory
  /\ out.explanation = answer.explanation
  /\ answer.category \in VALID_CATEGORIES =>
       out.category = answer.category /\ out.confidence = answer.confidence.v
  /\ answer.category \notin VALID_CATEGORIES =>
       out.category = "outros" /\ out.confidence = Min(answer.confidence.v, 30)

\* the most recent call of the service was a classification call and its
\* transaction has been classified
JustClassified ==
  /\ last_call.purpose = "classify"
  /\ last_call.outcome.kind # "hang"
  /\ Len(classified) = last_call.index

\* C19: the AI adapter is consulted only when AI mode is enabled and the
\* adapter was constructed; when it returns null or raises, the final
\* classification is exactly the heuristic one; when it returns a result,
\* that result is used, with an unknown category replaced by 'outros' and
\* the confidence then capped at 0.3
C19_TryAiThenFallback ==
  /\ calls > 0 => (use_gemini /\ api_key)
  /\ ~(use_gemini /\ api_key) =>
       \A i \in DOMAIN classified : IsHeuristicOutput(classified[i], batch.transactions[i])
  /\ JustClassified =>
       LET ai == gemini_classify_transaction(last_call.outcome)
           out == classified[last_call.index]
           txn == batch.transactions[last_call.index]
       IN  IF ai.raised # "no" \/ ai.value = Nothing
           THEN IsHeuristicOutput(out, txn)
           ELSE IsAdapterOutput(out, ai.value)

\* the adapter returned the unknown category 'viagens' with confidence 0.95
\* and the transaction is output as 'outros' with confidence 0.3
C19_Witness ==
  /\ JustClassified
  /\ last_call.outcome.kind = "text"
  /\ last_call.outcome.payload.json = "object"
  /\ last_call.outcome.payload.category = "viagens"
  /\ classified[last_call.index].category = "outros"
  /\ classified[last_call.index].confidence = 30
  /\ classified[last_call.index].model_version = "gemini-v1.0"

\* C20: when the AI adapter returns a valid category with a confidence
\* outside [0, 1], the confidence is clamped into [0, 1] and the batch still
\* yields a complete result that contains the transaction
C20_ConfidenceClamped ==
  (/\ last_call.purpose = "classify"
   /\ last_call.outcome.kind = "text"
   /\ last_call.outcome.payload.json = "object"
   /\ {"category", "confidence"} \subseteq last_call.outcome.payload.keys
   /\ last_call.outcome.payload.category \in VALID_CATEGORIES
   /\ last_call.outcome.payload.confidence.numeric
   /\ \/ last_call.outcome.payload.confidence.v > 100
      \/ last_call.outcome.payload.confidence.v < 0)
    => /\ ~IsError
       /\ Len(classified) = last_call.index
       /\ classified[last_call.index].category = last_call.outcome.payload.category
       /\ classified[last_call.index].confidence
            = Max(0, Min(100, last_call.outcome.payload.confidence.v))

\* the pairs of T that agree on amount (less than 0.01 apart), on date and on
\* the first 20 characters of the normalized description
NormalizedDuplicatePairs(T) ==
  {p \in (DOMAIN T) \X (DOMAIN T) :
     /\ p[1] < p[2]
     /\ T[p[1]].amount - T[p[2]].amount \in -9..9
     /\ T[p[1]].date = T[p[2]].date
     /\ Prefix(normalize_description(T[p[1]].description), 20)
          = Prefix(normalize_description(T[p[2]].description), 20)}

\* C21: once the batch is validated, the duplicates note counts exactly the
\* pairs of transactions whose normalized amounts differ by less than 0.01,
\* whose normalized dates are equal and whose normalized descriptions agree
\* on their first 20 characters; without such a pair there is no note
C21_DuplicatesOnNormalizedDescriptions ==
  (pc \in {"classify", "done"} /\ Accepted /\ ~IsError) =>
    LET n == Cardinality(NormalizedDuplicatePairs(batch.transactions))
    IN  /\ n > 0 => Note("duplicates", n) \in Range(processing_notes)
        /\ n = 0 => ~\E k \in DOMAIN processing_notes : processing_notes[k].kind = "duplicates"

\* C22: the service is called once per transaction at most, in batch order,
\* and once per batch for the insights, after the last classification: the
\* k-th call is the classification of transaction k or, after n
\* classifications, the insights call, so no call is repeated and at most
\* n + 1 are made; without AI mode or without a client no call is made
C22_NoRetries ==
  /\ ~HasClient => (calls = 0 /\ last_call = NoCall)
  /\ last_call = NoCall => calls = 0
  /\ last_call.purpose = "classify" =>
       /\ calls = last_call.index
       /\ last_call.index \in 1..Len(batch.transactions)
       /\ Len(classified) \in {calls - 1, calls}
  /\ last_call.purpose = "insights" =>
       /\ calls = Len(batch.transactions) + 1
       /\ Len(classified) = Len(batch.transactions)
       /\ Done
  /\ batch # NoBatch => calls <= Len(batch.transactions) + 1

\* a batch of two transactions classified after two calls, the second one
\* failed, and finished by an insights call that failed as well
C22_Witness ==
  /\ HasClient /\ IsResult
  /\ Len(batch.transactions) = 2
  /\ calls = 3
  /\ last_call.purpose = "insights"
  /\ last_call.outcome.kind = "error"
  /\ IsHeuristicOutput(classified[2], batch.transactions[2])

\* the most recent call classified a transaction and the service answered
\* it after more than GEMINI_TIMEOUT seconds
LateClassification ==
  /\ last_call.purpose = "classify"
  /\ last_call.outcome.kind = "late"

\* C23: an answer of the service that arrives after the timeout is never
\* used, well-formed or not: the adapter returns None and the transaction
\* gets the category, subcategory, confidence and explanation of the
\* heuristic classifier
C23_LateResponseDiscarded ==
  LateClassification =>
    /\ gemini_classify_transaction(last_call.outcome) = Returned(Nothing)
    /\ Len(classified) = last_call.index
    /\ ~IsError
    /\ IsHeuristicOutput(classified[last_call.index], batch.transactions[last_call.index])

\* a late answer that is well-formed and names a valid category, 'lazer',
\* which the transaction does not get
C23_Witness ==
  /\ LateClassification
  /\ last_call.outcome.payload.json = "object"
  /\ {"category", "confidence"} \subseteq last_call.outcome.payload.keys
  /\ last_call.outcome.payload.category \in VALID_CATEGORIES
  /\ Len(classified) = last_call.index
  /\ classified[last_call.index].category # last_call.outcome.payload.category

\* C24: the normalized_description of every output transaction has at most
\* MAX_DESCRIPTION_LENGTH characters, the ellipsis of a truncated
\* description included
C24_NormalizedDescriptionBounded ==
  \A i \in DOMAIN classified :
    Len(classified[i].normalized_description) <= MAX_DESCRIPTION_LENGTH

\* C25: when the heuristic classifies a description that holds a transfer
\* keyword, the category is 'transferencia', the subcategory is one of pix,
\* ted and doc that occurs in the description ('doc' when neither 'pix' nor
\* 'ted' occurs and 'doc' does), and the confidence is the one reached
\* before the rule plus 0.1, capped at 0.6
C25_TransferSubcategoryPresent ==
  ~HasClient =>
    \A i \in DOMAIN classified :
      LET d == ToLower(classified[i].description)
          before == HighAmountRule(KeywordScan(d, KeywordMatches(d)), classified[i].amount)
          out == classified[i]
      IN  ContainsAny(d, transfer_keywords) =>
            /\ out.category = "transferencia"
            /\ out.subcategory \in {<<"p", "i", "x">>, <<"t", "e", "d">>, <<"d", "o", "c">>}
            /\ Contains(d, out.subcategory)
            /\ (Contains(d, <<"d", "o", "c">>) /\ ~Contains(d, <<"p", "i", "x">>) /\ ~Contains(d, <<"t", "e", "d">>))
                 => out.subcategory = <<"d", "o", "c">>
            /\ out.confidence = Min(60, before.confidence + 10)

\* the absolute historical amounts of a category summed, and their number
HistoricalEntries(c) ==
  {i \in DOMAIN batch.historical_data.entries : batch.historical_data.entries[i].category = c}

RECURSIVE HistoricalAbsSum(_)
HistoricalAbsSum(I) ==
  IF I = {} THEN 0
  ELSE LET i == CHOOSE i \in I : TRUE
       IN  Abs(batch.historical_data.entries[i].amount) + HistoricalAbsSum(I \ {i})

\* the trend has one entry per category of by_category, in the same order
TrendPerCategory ==
  /\ Len(response.summary.trend) = Len(response.summary.by_category)
  /\ \A k \in DOMAIN response.summary.trend :
       response.summary.trend[k].category = response.summary.by_category[k].category
  /\ \A k, m \in DOMAIN response.summary.trend :
       response.summary.trend[k].category = response.summary.trend[m].category => k = m

\* (|current total| - average) / average, as the fraction num / den: current
\* is the net total of the category over the output transactions
ChangeNum(c) ==
  Abs(AmountSum(response.transactions, InCategory(response.transactions, c)))
    * Cardinality(HistoricalEntries(c)) - HistoricalAbsSum(HistoricalEntries(c))
ChangeDen(c) == HistoricalAbsSum(HistoricalEntries(c))

\* C26 as claimed: one trend entry per category; with a positive historical
\* average the entry's change is (|current| - average) / average * 100 and
\* its direction is 'up' exactly when that change is >= 5, 'down' exactly
\* when it is <= -5, 'stable' otherwise; without history 0 and 'stable'
C26_TrendExact ==
  (IsResult /\ response.transactions # <<>>) =>
    /\ TrendPerCategory
    /\ \A k \in DOMAIN response.summary.trend :
         LET t == response.summary.trend[k]
         IN  IF ChangeDen(t.category) > 0
             THEN /\ t.change_pct * ChangeDen(t.category) = ChangeNum(t.category) * 1000
                  /\ (t.direction = "up") = (t.change_pct >= TREND_THRESHOLD_UP * 10)
                  /\ (t.direction = "down") = (t.change_pct <= TREND_THRESHOLD_DOWN * 10)
                  /\ t.direction \in {"up", "down", "stable"}
             ELSE t.change_pct = 0 /\ t.direction = "stable"

\* C26 amended: the entry's change is that quotient rounded to one decimal,
\* and the direction is decided on the quotient before it is rounded
C26_TrendRounded ==
  (IsResult /\ response.transactions # <<>>) =>
    /\ TrendPerCategory
    /\ \A k \in DOMAIN response.summary.trend :
         LET t == response.summary.trend[k]
         IN  IF ChangeDen(t.category) > 0
             THEN /\ t.change_pct = RoundDiv(ChangeNum(t.category) * 1000, ChangeDen(t.category))
                  /\ (t.direction = "up") = (ChangeNum(t.category) * 100 >= TREND_THRESHOLD_UP * ChangeDen(t.category))
                  /\ (t.direction = "down") = (ChangeNum(t.category) * 100 <= TREND_THRESHOLD_DOWN * ChangeDen(t.category))
                  /\ t.direction \in {"up", "down", "stable"}
             ELSE t.change_pct = 0 /\ t.direction = "stable"

\* a result whose only category is 4.96% above its historical average: the
\* change reported is 5.0 and the direction 'stable'
C26_Witness ==
  /\ IsResult
  /\ \E k \in DOMAIN response.summary.trend :
       /\ ChangeDen(response.summary.trend[k].category) > 0
       /\ response.summary.trend[k].change_pct = TREND_THRESHOLD_UP * 10
       /\ response.summary.trend[k].direction = "stable"

\* the categories of the output transactions, and the alerts that qualify
\* for a result, recomputed from its transactions and the history supplied
OutputCategories == {response.transactions[i].category : i \in DOMAIN response.transactions}

ExpensesOfResult ==
  Abs(AmountSum(response.transactions, Negative(response.transactions)))

HistoricalTotal == HistoricalAbsSum(DOMAIN batch.historical_data.entries)

HighSpendCategories ==
  {c \in OutputCategories :
     LET net == AmountSum(response.transactions, InCategory(response.transactions, c))
     IN  net < 0 /\ ExpensesOfResult > 0 /\ Abs(net) * 100 > 30 * ExpensesOfResult}

UnusualCategories ==
  {c \in OutputCategories :
     Cardinality({i \in InCategory(response.transactions, c) :
                    response.transactions[i].confidence < 50}) >= 3}

OverallHighSpend ==
  /\ HistoricalTotal > 0
  /\ (ExpensesOfResult - HistoricalTotal) * 100 > 20 * HistoricalTotal

\* 1: high_spend of a category, 2: unusual_category, 3: high_spend without
\* a category
AlertRank(alert) ==
  IF alert.type = "unusual_category" THEN 2
  ELSE IF alert.related_category = "None" THEN 3 ELSE 1

AllQualifying ==
  {[type |-> "high_spend", related_category |-> c] : c \in HighSpendCategories}
  \cup {[type |-> "unusual_category", related_category |-> c] : c \in UnusualCategories}
  \cup (IF OverallHighSpend THEN {[type |-> "high_spend", related_category |-> "None"]} ELSE {})

\* C27: every summary has at most 5 alerts, each one qualifying and listed
\* once, in precedence order (high_spend per expense category above 30% of
\* the total expenses, then unusual_category per category with at least 3
\* transactions of confidence below 0.5, then the high_spend alert without
\* category when the expenses exceed the historical total by more than 20%);
\* when more than 5 qualify, 5 are listed and none of those left out
\* precedes a listed one
C27_AlertsCappedInPrecedence ==
  (IsResult /\ response.transactions # <<>>) =>
    LET alerts == response.summary.alerts
        listed == {alerts[k] : k \in DOMAIN alerts}
    IN  /\ Len(alerts) <= 5
        /\ listed \subseteq AllQualifying
        /\ \A k, m \in DOMAIN alerts : alerts[k] = alerts[m] => k = m
        /\ \A k, m \in DOMAIN alerts : k < m => AlertRank(alerts[k]) <= AlertRank(alerts[m])
        /\ Len(alerts) = Min(5, Cardinality(AllQualifying))
        /\ \A q \in AllQualifying \ listed :
             \A k \in DOMAIN alerts : AlertRank(alerts[k]) <= AlertRank(q)

\* a result for which six alerts qualify, three of them for categories above
\* 30% and the last for the expenses above the history: the five listed end
\* with an unusual_category alert
C27_Witness ==
  /\ IsResult
  /\ Cardinality(AllQualifying) = 6
  /\ Cardinality(HighSpendCategories) = 3
  /\ OverallHighSpend
  /\ Len(response.summary.alerts) = 5
  /\ response.summary.alerts[5].type = "unusual_category"

\* what generate_insights returned to the summary of the result, and the
\* recommendations of the answer that Recommendation(...) accepted before
\* the first one it rejected
InsightsOfResult ==
  IF last_call.purpose = "insights" THEN generate_insights(last_call.outcome)
  ELSE Returned(Nothing)

InsightsAnswered == InsightsOfResult.raised = "no" /\ InsightsOfResult.value # Nothing

Offered == IF InsightsAnswered THEN Prefix(InsightsOfResult.value.recommendations, 3) ELSE <<>>

AcceptedCount ==
  CHOOSE n \in 0..Len(Offered) :
    /\ \A i \in 1..n : Offered[i].valid
    /\ n = Len(Offered) \/ ~Offered[n + 1].valid

\* the result's recommendations were not returned from the service's answer:
\* the rules of lines 251-287 ran
RulesRan ==
  /\ IsResult
  /\ response.transactions # <<>>
  /\ ~(InsightsAnswered /\ AcceptedCount = Len(Offered))

IncomeOfResult == AmountSum(response.transactions, Positive(response.transactions))

NetOf(c) == AmountSum(response.transactions, InCategory(response.transactions, c))

FirstOf(c) == CHOOSE i \in InCategory(response.transactions, c) :
                \A j \in InCategory(response.transactions, c) : i <= j

SavingsDue ==
  /\ IncomeOfResult > 0
  /\ (IncomeOfResult - ExpensesOfResult) * 100 < 10 * IncomeOfResult

\* the largest expense category (the first of the largest) has trend 'up'
CategoryTipDue ==
  \E c \in OutputCategories :
    /\ NetOf(c) < 0
    /\ \A d \in OutputCategories \ {c} :
         NetOf(d) < 0 =>
           \/ Abs(NetOf(d)) < Abs(NetOf(c))
           \/ Abs(NetOf(d)) = Abs(NetOf(c)) /\ FirstOf(c) < FirstOf(d)
    /\ \E k \in DOMAIN response.summary.trend :
         /\ response.summary.trend[k].category = c
         /\ response.summary.trend[k].direction = "up"

GeneralDue == ExpensesOfResult * 10 > IncomeOfResult * 8

Recommends(id) ==
  \E k \in DOMAIN response.summary.recommendations : response.summary.recommendations[k].id = id

IndexOfRecommendation(id) ==
  CHOOSE k \in DOMAIN response.summary.recommendations :
    response.summary.recommendations[k].id = id

C29_RecommendationsSingleSource ==
  IsResult =>
    LET recs == response.summary.recommendations
    IN  /\ \A k, m \in DOMAIN recs : recs[k].source = recs[m].source
        /\ RulesRan => \A k \in DOMAIN recs : recs[k].source = "rule"

\* C30: in every result, an output transaction has a positive amount only if
\* its description holds an income or a transfer keyword of normalize_amount,
\* and none whose description holds an income keyword has a negative amount;
\* so the heuristic rule for amounts above 500 without a category never
\* applies to what the keyword scan finds for an output transaction
C30_PositiveOnlyWithKeyword ==
  IsResult =>
    \A i \in DOMAIN response.transactions :
      LET t == response.transactions[i]
          low == ToLower(t.description)
          scan == KeywordScan(low, KeywordMatches(low))
      IN  /\ t.amount > 0 =>
               (Mentions(t.description, IncomeWords) \/ Mentions(t.description, TransferWords))
          /\ t.amount < 0 => ~Mentions(t.description, IncomeWords)
          /\ t.amount > 500000 => (scan.category # "outros" /\ HighAmountRule(scan, t.amount) = scan)

\* a result with an amount above 500 entered as positive on a description
\* without keyword, returned negative and classified 'outros' by the
\* heuristic, next to one on a transfer, returned positive
C30_Witness ==
  /\ IsResult
  /\ Accepted
  /\ \E i, j \in DOMAIN response.transactions :
       /\ InputItems[i].amount.v > 500000
       /\ response.transactions[i].amount = -InputItems[i].amount.v
       /\ response.transactions[i].category = "outros"
       /\ response.transactions[i].model_version = "heuristic-fallback-v1"
       /\ response.transactions[j].amount > 500000
       /\ response.transactions[j].category = "transferencia"
       /\ response.transactions[j].model_version = "heuristic-fallback-v1"
====
